---- MODULE Spec2Model ----
(***************************************************************************)
(* A model of the file copy check tool (src/src/*.py): the path builder,   *)
(* the scanner, the copier and the batch loop of main.py, over an explicit *)
(* file system.                                                            *)
(*                                                                         *)
(* Strings are sequences of tokens.  A token stands for one character, or  *)
(* for a run of ordinary characters no operation looks inside.  The        *)
(* Japanese literals of the source are written in ASCII:                   *)
(*   "chousa" .. "SDshouka"  the seven phase names of phase_names          *)
(*   "seikabutsu"            the artifacts folder (file_copier.py:119)     *)
(*   "gaibu_review"          the external review folder                    *)
(*                           (file_scanner.py:187)                         *)
(*   "RR"                    the review record literal of                  *)
(*                           file_scanner.py:203, up to its "*"            *)
(* A path is a sequence of segments, a segment is a string.                *)
(***************************************************************************)
EXTENDS Integers, Sequences, FiniteSets, TLC

VARIABLES
    files,          \* the regular files of both trees: path -> [content, mtime]
    dirs,           \* the directories of both trees: a set of paths
    project_name,   \* main.py:553, the coordinates of the run
    quarter,
    item_name,
    phase,          \* the phase a run works on
    now,            \* the wall clock of the run, in ticks
    hist,           \* the calls made so far, oldest first
    pb,             \* the latest path builder call and what both builders returned
    batch,          \* execute_copy: its arguments, its position and its counters
    document_patterns,  \* Config.document_patterns: phase -> list of prefixes
    scan,           \* the latest scan call and the list it returned
    extra_files,    \* Config.extra_files: a list of file names
    loaded,         \* the latest load_config call: the file read and the outcome
    run,            \* main: its position, its locals and its exit code
    base_path_internal,     \* Config.base_path_internal: the root of the internal tree
    base_path_external      \* Config.base_path_external: the root of the external tree

vars == <<files, dirs, project_name, quarter, item_name, phase, now, hist, pb, batch,
          document_patterns, scan, extra_files, loaded, run, base_path_internal,
          base_path_external>>

----------------------------------------------------------------------------
(* Bounds of the model *)

MaxItemLen == 2
MaxFiles == 2
MaxBatch == 2
TicksPerDay == 2
MaxScanFiles == 2
MaxDaysAgo == 1
MaxReviewFiles == 2
MaxMainFiles == 2
MaxInputLen == 4
MaxIndex == 3
MaxListLen == 2
MaxFlowFiles == 3

----------------------------------------------------------------------------
(* Strings *)

Whitespace == {" ", "\t"}

ItemTokens == {" ", "x"}

\* every string over toks of length at most n
StringsUpTo(toks, n) == UNION {[1..k -> toks] : k \in 0..n}

RECURSIVE lstrip(_)
lstrip(s) ==
    IF s # <<>> /\ Head(s) \in Whitespace THEN lstrip(Tail(s)) ELSE s

RECURSIVE rstrip(_)
rstrip(s) ==
    IF s # <<>> /\ s[Len(s)] \in Whitespace
    THEN rstrip(SubSeq(s, 1, Len(s) - 1))
    ELSE s

\* str.strip()
strip(s) == rstrip(lstrip(s))

\* Python's truth value of a string: non-empty
truthy(s) == s # <<>>

----------------------------------------------------------------------------
(* Phases and the path builders *)

PhaseCode == {"030", "040", "050", "060", "070", "080", "090"}

phase_names ==
    [p \in PhaseCode |->
        CASE p = "030" -> "chousa"
          [] p = "040" -> "sekkei"
          [] p = "050" -> "seizou"
          [] p = "060" -> "UDsakusei"
          [] p = "070" -> "UDshouka"
          [] p = "080" -> "SDsakusei"
          [] p = "090" -> "SDshouka"]

get_phase_name(p) == phase_names[p]

\* pathlib's base / segment: an empty segment adds nothing
Join(path, segment) == IF segment = <<>> THEN path ELSE Append(path, segment)

InternalRoot == << <<"internal">> >>
ExternalRoot == << <<"external">> >>

\* file_scanner.py, the item test of a builder that forgets to strip
scanner_build_phase_path_nostrip(base_path, project, q, item, p) ==
    LET phase_folder == <<p, ".", get_phase_name(p)>>
    IN  IF truthy(item)
        THEN Join(Join(Join(Join(base_path, project), q), item), phase_folder)
        ELSE Join(Join(Join(base_path, project), q), phase_folder)

\* file_scanner.py _build_phase_path
scanner_build_phase_path(base_path, project, q, item, p) ==
    LET phase_folder == <<p, ".", get_phase_name(p)>>
    IN  IF truthy(strip(item))
        THEN Join(Join(Join(Join(base_path, project), q), item), phase_folder)
        ELSE Join(Join(Join(base_path, project), q), phase_folder)

\* a copier builder that keeps the item segment whatever the item
copier_build_phase_path_keepitem(base_path, project, q, item, p) ==
    LET phase_name == phase_names[p]
        phase_folder == <<p, ".", phase_name>>
    IN  Join(Join(Join(Join(base_path, project), q), item), phase_folder)

\* file_copier.py _build_phase_path
copier_build_phase_path(base_path, project, q, item, p) ==
    LET phase_name == phase_names[p]
        phase_folder == <<p, ".", phase_name>>
    IN  IF truthy(strip(item))
        THEN Join(Join(Join(Join(base_path, project), q), item), phase_folder)
        ELSE Join(Join(Join(base_path, project), q), phase_folder)

----------------------------------------------------------------------------
(* The file system: pathlib and shutil as the copier uses them *)

Contents == {"c1", "c2"}

\* what a destination holds after a copy that failed while writing
PARTIAL == "partial"

NoPath == <<>>

Parent(path) == SubSeq(path, 1, Len(path) - 1)

Name(path) == path[Len(path)]

Prefixes(path) == {SubSeq(path, 1, k) : k \in 1..Len(path)}

IsPrefix(p, q) == Len(p) <= Len(q) /\ SubSeq(q, 1, Len(p)) = p

IsProperPrefix(p, q) == Len(p) < Len(q) /\ SubSeq(q, 1, Len(p)) = p

\* under which root a path lies
InInternal(path) == IsPrefix(base_path_internal, path)

InExternal(path) == IsPrefix(base_path_external, path)

is_file(fs, path) == path \in DOMAIN fs

exists(fs, ds, path) == path \in DOMAIN fs \/ path \in ds

\* the faults of the environment a call can meet
Faults == {"none", "mkdir_denied", "lookup_failed", "open_denied",
           "write_failed", "copystat_denied"}

\* Path.mkdir(parents=True, exist_ok=True): an exception, or the directories
\* after it.  A regular file on the way makes os.mkdir fail before anything
\* is created.
mkdir(fs, ds, path, fault) ==
    IF fault = "mkdir_denied"
    THEN [exc |-> "PermissionError", dirs |-> ds]
    ELSE IF \E q \in Prefixes(path) : is_file(fs, q)
    THEN [exc |-> "OSError", dirs |-> ds]
    ELSE [exc |-> "none", dirs |-> ds \cup Prefixes(path)]

\* a copy that moves the file instead: the source is gone afterwards
copy2_move(fs, ds, src, dst, fault, t) ==
    IF ~is_file(fs, src) \/ dst = src \/ dst \in ds \/ Parent(dst) \notin ds
    THEN [exc |-> "OSError", files |-> fs, dest |-> NoPath]
    ELSE [exc |-> "none",
          files |-> [q \in (DOMAIN fs \cup {dst}) \ {src} |->
                        IF q = dst THEN fs[src] ELSE fs[q]],
          dest |-> dst]

\* a copy that refuses an existing destination
copy2_exclusive(fs, ds, src, dst, fault, t) ==
    IF ~is_file(fs, src) \/ dst = src \/ dst \in ds \/ Parent(dst) \notin ds
       \/ is_file(fs, dst)
    THEN [exc |-> "OSError", files |-> fs, dest |-> NoPath]
    ELSE [exc |-> "none",
          files |-> [q \in DOMAIN fs \cup {dst} |-> IF q = dst THEN fs[src] ELSE fs[q]],
          dest |-> dst]

\* a copy whose refused open has already emptied the destination
copy2_open_truncates(fs, ds, src, dst, fault, t) ==
    LET put(f) == [q \in DOMAIN fs \cup {dst} |-> IF q = dst THEN f ELSE fs[q]]
    IN  IF ~is_file(fs, src) \/ dst = src \/ dst \in ds \/ Parent(dst) \notin ds
        THEN [exc |-> "OSError", files |-> fs, dest |-> NoPath]
        ELSE IF fault = "open_denied"
        THEN [exc |-> "PermissionError",
              files |-> put([content |-> PARTIAL, mtime |-> t]),
              dest |-> NoPath]
        ELSE [exc |-> "none", files |-> put(fs[src]), dest |-> dst]

\* a copy that leaves an existing destination as it is and reports success
copy2_keep_existing(fs, ds, src, dst, fault, t) ==
    LET real == IF dst \in ds THEN Join(dst, Name(src)) ELSE dst
    IN  IF ~is_file(fs, src) \/ real = src \/ real \in ds \/ Parent(real) \notin ds
        THEN [exc |-> "OSError", files |-> fs, dest |-> NoPath]
        ELSE IF fault = "open_denied"
        THEN [exc |-> "PermissionError", files |-> fs, dest |-> NoPath]
        ELSE [exc |-> "none",
              files |-> [q \in DOMAIN fs \cup {real} |->
                            IF q \in DOMAIN fs THEN fs[q] ELSE fs[src]],
              dest |-> real]

\* shutil.copy2(src, dst) at time t: copyfile, then copystat.  A directory
\* at dst receives the file under the source's name.
copy2(fs, ds, src, dst, fault, t) ==
    LET real == IF dst \in ds THEN Join(dst, Name(src)) ELSE dst
        put(f) == [q \in DOMAIN fs \cup {real} |-> IF q = real THEN f ELSE fs[q]]
    IN  IF ~is_file(fs, src)
        THEN [exc |-> "OSError", files |-> fs, dest |-> NoPath]
        ELSE IF real = src \/ real \in ds \/ Parent(real) \notin ds
        THEN [exc |-> "OSError", files |-> fs, dest |-> NoPath]
        ELSE IF fault = "open_denied"
        THEN [exc |-> "PermissionError", files |-> fs, dest |-> NoPath]
        ELSE IF fault = "write_failed"
        THEN [exc |-> "OSError",
              files |-> put([content |-> PARTIAL, mtime |-> t]),
              dest |-> real]
        ELSE IF fault = "copystat_denied"
        THEN [exc |-> "PermissionError",
              files |-> put([content |-> fs[src].content, mtime |-> t]),
              dest |-> real]
        ELSE [exc |-> "none", files |-> put(fs[src]), dest |-> real]

----------------------------------------------------------------------------
(* Glob patterns: fnmatch on one name, Path.rglob over a tree *)

\* the position of the "]" closing a class opened at pat[1], or 0
ClassEnd(pat) ==
    LET closing == {i \in 3..Len(pat) : pat[i] = "]"}
    IN  IF closing = {} THEN 0
        ELSE CHOOSE i \in closing : \A j \in closing : i <= j

\* fnmatch: "*" any run of characters, "[...]" one character of the class
RECURSIVE fnmatch(_, _)
fnmatch(name, pat) ==
    IF pat = <<>> THEN name = <<>>
    ELSE IF Head(pat) = "*"
    THEN fnmatch(name, Tail(pat)) \/ (name # <<>> /\ fnmatch(Tail(name), pat))
    ELSE IF Head(pat) = "[" /\ ClassEnd(pat) > 0
    THEN /\ name # <<>>
         /\ Head(name) \in {pat[i] : i \in 2..(ClassEnd(pat) - 1)}
         /\ fnmatch(Tail(name), SubSeq(pat, ClassEnd(pat) + 1, Len(pat)))
    ELSE /\ name # <<>>
         /\ Head(name) = Head(pat)
         /\ fnmatch(Tail(name), Tail(pat))

\* Path.glob(pattern): the children of dir whose name matches
glob(fs, ds, dir, pattern) ==
    IF dir \notin ds THEN {}
    ELSE {q \in DOMAIN fs \cup ds : Parent(q) = dir /\ q # dir /\ fnmatch(Name(q), pattern)}

\* Path.rglob(pattern): the entries at any depth under dir whose name matches
rglob(fs, ds, dir, pattern) ==
    IF dir \notin ds THEN {}
    ELSE {q \in DOMAIN fs \cup ds : IsProperPrefix(dir, q) /\ fnmatch(Name(q), pattern)}

\* rglob walks a directory's own entries before it descends, so of two
\* matches the one whose folder is an ancestor of the other's folder comes
\* first; the order among the others is the directory order, fixed but
\* unknown.
first_found(matches) ==
    LET early == {q \in matches :
                    ~\E r \in matches : IsProperPrefix(Parent(r), Parent(q))}
    IN  IF matches = {} THEN NoPath ELSE CHOOSE q \in early : TRUE

----------------------------------------------------------------------------
(* file_copier.py *)

OperationMode == {"OUTGOING", "INCOMING"}

artifacts == <<"seikabutsu">>

\* the handlers of a copy function that lets everything but PermissionError through
try_except_permission_only(out) ==
    [out EXCEPT !.ret = IF out.exc = "none" THEN out.ret
                        ELSE IF out.exc = "PermissionError" THEN "False"
                        ELSE "raise"]

\* try: ... except PermissionError: return False  except Exception: return False
try_except(out) ==
    [out EXCEPT !.ret = IF out.exc = "none" THEN out.ret
                        ELSE IF out.exc = "PermissionError" THEN "False"
                        ELSE "False"]

\* mkdir of the destination folder, then copy2 into it under the source's name
copy_into(fs, ds, source_file, dest_dir, fault) ==
    LET m == mkdir(fs, ds, dest_dir, fault)
        c == copy2(fs, m.dirs, source_file, Join(dest_dir, Name(source_file)), fault, now)
    IN  IF m.exc # "none"
        THEN [exc |-> m.exc, ret |-> "none", files |-> fs, dirs |-> ds, dest |-> NoPath]
        ELSE [exc |-> c.exc, ret |-> IF c.exc = "none" THEN "True" ELSE "none",
              files |-> c.files, dirs |-> m.dirs, dest |-> c.dest]

\* a document copy whose destination is the tree the scan of the mode reads
copy_document_same_root(fs, ds, source_file, p, mode, fault) ==
    LET dest_base == IF mode = "OUTGOING" THEN base_path_internal
                     ELSE base_path_external
        dest_phase_dir ==
            copier_build_phase_path(dest_base, project_name, quarter, item_name, p)
    IN  try_except(copy_into(fs, ds, source_file, dest_phase_dir, fault))

copy_document(fs, ds, source_file, p, mode, fault) ==
    LET dest_base == IF mode = "OUTGOING" THEN base_path_external
                     ELSE base_path_internal
        dest_phase_dir ==
            copier_build_phase_path(dest_base, project_name, quarter, item_name, p)
    IN  try_except(copy_into(fs, ds, source_file, dest_phase_dir, fault))

\* an outgoing copy that keeps the external review folder on the way
copy_review_record_outgoing_nested(fs, ds, source_file, p, fault) ==
    LET dest_base == base_path_external
        dest_phase_dir ==
            copier_build_phase_path(dest_base, project_name, quarter, item_name, p)
        dest_artifacts_dir == Join(Join(dest_phase_dir, artifacts), <<"gaibu_review">>)
    IN  try_except(copy_into(fs, ds, source_file, dest_artifacts_dir, fault))

copy_review_record_outgoing(fs, ds, source_file, p, fault) ==
    LET dest_base == base_path_external
        dest_phase_dir ==
            copier_build_phase_path(dest_base, project_name, quarter, item_name, p)
        dest_artifacts_dir == Join(dest_phase_dir, artifacts)
    IN  try_except(copy_into(fs, ds, source_file, dest_artifacts_dir, fault))

\* a lookup that compares names instead of matching a pattern
find_matching_file_by_name(fs, ds, file_name, p) ==
    LET internal_base == base_path_internal
        phase_dir ==
            copier_build_phase_path(internal_base, project_name, quarter, item_name, p)
    IN  IF ~exists(fs, ds, phase_dir) THEN NoPath
        ELSE first_found({q \in DOMAIN fs : IsProperPrefix(phase_dir, q)
                                             /\ Name(q) = file_name})

find_matching_file_in_internal(fs, ds, file_name, p) ==
    LET internal_base == base_path_internal
        phase_dir ==
            copier_build_phase_path(internal_base, project_name, quarter, item_name, p)
    IN  IF ~exists(fs, ds, phase_dir) THEN NoPath
        ELSE first_found({q \in rglob(fs, ds, phase_dir, file_name) : is_file(fs, q)})

copy_review_record_incoming(fs, ds, source_file, p, fault) ==
    LET dest_file == find_matching_file_in_internal(fs, ds, Name(source_file), p)
        c == copy2(fs, ds, source_file, dest_file, fault, now)
    IN  try_except(
            IF fault = "lookup_failed"
            THEN [exc |-> "PermissionError", ret |-> "none", files |-> fs,
                  dirs |-> ds, dest |-> NoPath]
            ELSE IF dest_file = NoPath
            THEN [exc |-> "none", ret |-> "False", files |-> fs, dirs |-> ds,
                  dest |-> NoPath]
            ELSE [exc |-> c.exc, ret |-> IF c.exc = "none" THEN "True" ELSE "none",
                  files |-> c.files, dirs |-> ds, dest |-> c.dest])

copy_extra_file(fs, ds, source_file, p, fault) ==
    LET dest_base == base_path_external
        dest_phase_dir ==
            copier_build_phase_path(dest_base, project_name, quarter, item_name, p)
        dest_artifacts_dir == Join(dest_phase_dir, artifacts)
    IN  try_except(copy_into(fs, ds, source_file, dest_artifacts_dir, fault))

----------------------------------------------------------------------------
(* The trees a run starts from *)

Projects == {<<"P">>}
Quarters == {<<"2025_4Q">>}

external_review == <<"gaibu_review">>
date_folder == <<"20251219">>

\* two review record names: "RR1.xlsx" and "RR[1].xlsx"
PlainName == <<"RR", "1", ".xlsx">>
BracketName == <<"RR", "[", "1", "]", ".xlsx">>
RecordNames == {PlainName, BracketName}

\* a document name: "K_A.xlsx"
DocName == <<"K", "_", "A", ".xlsx">>

InternalPhaseDir(p) ==
    copier_build_phase_path(base_path_internal, project_name, quarter, item_name, p)

ExternalPhaseDir(p) ==
    copier_build_phase_path(base_path_external, project_name, quarter, item_name, p)

\* where the trees hold files: the phase folder and the review folders of
\* the internal tree, the phase folder and the artifacts folder of the
\* external tree
InternalFolders(p) ==
    LET pd == InternalPhaseDir(p)
    IN  {pd,
         Join(Join(pd, artifacts), external_review),
         Join(Join(Join(pd, artifacts), external_review), date_folder)}

ExternalFolders(p) ==
    LET pd == ExternalPhaseDir(p)
    IN  {pd, Join(pd, artifacts)}

CopySlots ==
    {Join(d, n) : d \in InternalFolders(phase) \cup ExternalFolders(phase),
                  n \in RecordNames}

\* the directories a set of files needs
DirsOf(paths) == UNION {Prefixes(Parent(q)) : q \in paths}

NoBuild == [base |-> NoPath, phase |-> "none", scanner |-> NoPath, copier |-> NoPath]

NoBatch == [pc |-> "idle"]

NoScan == [op |-> "none"]

NoLoad == [op |-> "none"]

NoRun == [pc |-> "idle"]

NoPatterns == [p \in PhaseCode |-> <<>>]

\* the run takes place on the third day, one tick after midnight
Now == 2 * TicksPerDay + 1

InitCopy ==
    /\ base_path_internal = InternalRoot
    /\ base_path_external = ExternalRoot
    /\ project_name \in Projects
    /\ quarter \in Quarters
    /\ item_name \in {<<>>, <<"x">>}
    /\ phase \in {"030", "040"}
    /\ now = Now
    /\ \E S \in SUBSET CopySlots :
          /\ Cardinality(S) <= MaxFiles
          /\ files \in [S -> [content : Contents, mtime : {0}]]
          /\ \E extra \in {{}, Prefixes(InternalPhaseDir(phase))} :
                dirs = DirsOf(S) \cup extra
    /\ hist = <<>>
    /\ pb = NoBuild
    /\ batch = NoBatch
    /\ document_patterns = NoPatterns
    /\ scan = NoScan
    /\ extra_files = <<>>
    /\ loaded = NoLoad
    /\ run = NoRun

----------------------------------------------------------------------------
(* The copy operations as steps *)

Call(op, src, mode, fault, out) ==
    [op |-> op, src |-> src, mode |-> mode, fault |-> fault, ret |-> out.ret,
     dest |-> out.dest, pre_files |-> files, pre_dirs |-> dirs]

Apply(op, src, mode, fault, out) ==
    /\ files' = out.files
    /\ dirs' = out.dirs
    /\ hist' = Append(hist, Call(op, src, mode, fault, out))
    /\ UNCHANGED <<base_path_internal, base_path_external>>
    /\ UNCHANGED <<project_name, quarter, item_name, phase, now, pb, batch,
                 document_patterns, scan, extra_files, loaded, run>>

\* a source that does not exist
MissingSource == Join(InternalPhaseDir(phase), <<"missing", ".xlsx">>)

Sources == DOMAIN files \cup {MissingSource}

CopyDocument(src, mode, fault) ==
    /\ hist = <<>>
    /\ fault = "none" \/ copy_document(files, dirs, src, phase, mode, fault)
                         # copy_document(files, dirs, src, phase, mode, "none")
    /\ Apply("copy_document", src, mode, fault,
             copy_document(files, dirs, src, phase, mode, fault))

CopyReviewRecordOutgoing(src, fault) ==
    /\ hist = <<>>
    /\ fault = "none" \/ copy_review_record_outgoing(files, dirs, src, phase, fault)
                         # copy_review_record_outgoing(files, dirs, src, phase, "none")
    /\ Apply("copy_review_record_outgoing", src, "OUTGOING", fault,
             copy_review_record_outgoing(files, dirs, src, phase, fault))

CopyReviewRecordIncoming(src, fault) ==
    /\ hist = <<>>
    /\ fault = "none" \/ copy_review_record_incoming(files, dirs, src, phase, fault)
                         # copy_review_record_incoming(files, dirs, src, phase, "none")
    /\ Apply("copy_review_record_incoming", src, "INCOMING", fault,
             copy_review_record_incoming(files, dirs, src, phase, fault))

CopyExtraFile(src, fault) ==
    /\ hist = <<>>
    /\ fault = "none" \/ copy_extra_file(files, dirs, src, phase, fault)
                         # copy_extra_file(files, dirs, src, phase, "none")
    /\ Apply("copy_extra_file", src, "OUTGOING", fault,
             copy_extra_file(files, dirs, src, phase, fault))

\* what a copy operation does when called with these arguments
Invoke(op, src, mode, fault) ==
    CASE op = "copy_document" -> copy_document(files, dirs, src, phase, mode, fault)
      [] op = "copy_review_record_outgoing" ->
            copy_review_record_outgoing(files, dirs, src, phase, fault)
      [] op = "copy_review_record_incoming" ->
            copy_review_record_incoming(files, dirs, src, phase, fault)
      [] op = "copy_extra_file" -> copy_extra_file(files, dirs, src, phase, fault)

\* the same operation once more, with the same source and coordinates
Again ==
    /\ Len(hist) = 1
    /\ Apply(hist[1].op, hist[1].src, hist[1].mode, "none",
             Invoke(hist[1].op, hist[1].src, hist[1].mode, "none"))

\* after an outgoing copy, the file it wrote is copied incoming
CopyBack(op) ==
    /\ Len(hist) = 1
    /\ hist[1].op \in {"copy_document", "copy_review_record_outgoing"}
    /\ hist[1].mode = "OUTGOING"
    /\ hist[1].ret = "True"
    /\ Apply(op, hist[1].dest, "INCOMING", "none",
             Invoke(op, hist[1].dest, "INCOMING", "none"))

NextCopy ==
    \/ \E src \in Sources, mode \in OperationMode, fault \in Faults :
          CopyDocument(src, mode, fault)
    \/ \E src \in Sources, fault \in Faults : CopyReviewRecordOutgoing(src, fault)
    \/ \E src \in Sources, fault \in Faults : CopyReviewRecordIncoming(src, fault)
    \/ \E src \in Sources, fault \in Faults : CopyExtraFile(src, fault)
    \/ Again
    \/ \E op \in {"copy_document", "copy_review_record_incoming"} : CopyBack(op)

SpecCopy == InitCopy /\ [][NextCopy]_vars

----------------------------------------------------------------------------
(* The path builders on their own *)

PathItems == StringsUpTo(ItemTokens \cup {"\t"}, MaxItemLen)

InitPath ==
    /\ base_path_internal = InternalRoot
    /\ base_path_external = ExternalRoot
    /\ project_name \in Projects \cup {<<"Q">>}
    /\ quarter \in Quarters
    /\ item_name \in PathItems
    /\ phase \in PhaseCode
    /\ now = Now
    /\ \E d \in {InternalPhaseDir(phase), ExternalPhaseDir(phase)} :
          /\ files = [q \in {Join(d, DocName)} |-> [content |-> "c1", mtime |-> 0]]
          /\ dirs = Prefixes(d)
    /\ hist = <<>>
    /\ pb = NoBuild
    /\ batch = NoBatch
    /\ document_patterns = NoPatterns
    /\ scan = NoScan
    /\ extra_files = <<>>
    /\ loaded = NoLoad
    /\ run = NoRun

\* both builders on the coordinates of the run
BuildPhasePath(base_path) ==
    /\ pb' = [base |-> base_path, phase |-> phase,
              scanner |-> scanner_build_phase_path(base_path, project_name, quarter,
                                                   item_name, phase),
              copier |-> copier_build_phase_path(base_path, project_name, quarter,
                                                 item_name, phase)]
    /\ UNCHANGED <<base_path_internal, base_path_external>>
    /\ UNCHANGED <<files, dirs, project_name, quarter, item_name, phase, now, hist, batch,
                 document_patterns, scan, extra_files, loaded, run>>

NextPath ==
    \/ \E base_path \in {base_path_internal, base_path_external} :
          BuildPhasePath(base_path)
    \/ \E src \in Sources, mode \in OperationMode, fault \in Faults :
          CopyDocument(src, mode, fault)

SpecPath == InitPath /\ [][NextPath]_vars

----------------------------------------------------------------------------
(* main.py execute_copy, one file of its lists at a time *)

\* get_phase_from_path: the phase of the first part that is a phase folder
get_phase_from_path(file_path) ==
    LET phase_name_map == [p \in PhaseCode |-> <<p, ".", phase_names[p]>>]
        hits == {i \in 1..Len(file_path) :
                    \E p \in PhaseCode : file_path[i] = phase_name_map[p]}
        first == CHOOSE i \in hits : \A j \in hits : i <= j
    IN  IF hits = {} THEN "None"
        ELSE CHOOSE p \in PhaseCode : file_path[first] = phase_name_map[p]

Categories == <<"documents", "review_records", "extra_files">>

ListOf(b, category) ==
    CASE category = "documents" -> b.documents
      [] category = "review_records" -> b.review_records
      [] category = "extra_files" -> b.extra_files

\* the position of the next file from list k, entry idx on, or "done"
RECURSIVE Settle(_, _, _)
Settle(b, k, idx) ==
    IF k > Len(Categories) THEN [pc |-> "done", idx |-> 1]
    ELSE IF idx <= Len(ListOf(b, Categories[k]))
    THEN [pc |-> Categories[k], idx |-> idx]
    ELSE Settle(b, k + 1, 1)

CategoryIndex(category) == CHOOSE k \in 1..Len(Categories) : Categories[k] = category

\* the loop goes on to the next file
Continue(b, outcome) ==
    LET pos == Settle(b, CategoryIndex(b.pc), b.idx + 1)
    IN  [b EXCEPT !.pc = pos.pc, !.idx = pos.idx,
                  !.attempted = Append(@, [category |-> b.pc,
                                           file |-> ListOf(b, b.pc)[b.idx],
                                           outcome |-> outcome])]

\* a loop that gives up at the first file that fails
on_failure_break(b) ==
    [Continue(b, "failed") EXCEPT !.failure_count = @ + 1, !.pc = "done"]

\* failure_count += 1, and on with the loop
on_failure(b) == [Continue(b, "failed") EXCEPT !.failure_count = @ + 1]

\* success_count += 1
on_success(b) == [Continue(b, "copied") EXCEPT !.success_count = @ + 1]

\* the copy function execute_copy calls for a file of the current list
CopyFor(b, file_path, p, fault) ==
    CASE b.pc = "documents" -> copy_document(files, dirs, file_path, p, b.mode, fault)
      [] b.pc = "review_records" /\ b.mode = "OUTGOING" ->
            copy_review_record_outgoing(files, dirs, file_path, p, fault)
      [] b.pc = "review_records" /\ b.mode = "INCOMING" ->
            copy_review_record_incoming(files, dirs, file_path, p, fault)
      [] b.pc = "extra_files" -> copy_extra_file(files, dirs, file_path, p, fault)

OpFor(b) ==
    CASE b.pc = "documents" -> "copy_document"
      [] b.pc = "review_records" /\ b.mode = "OUTGOING" -> "copy_review_record_outgoing"
      [] b.pc = "review_records" /\ b.mode = "INCOMING" -> "copy_review_record_incoming"
      [] b.pc = "extra_files" -> "copy_extra_file"

\* a file whose phase cannot be told from its path: counted as a failure
ExecuteCopySkip ==
    /\ batch.pc \in {"documents", "review_records", "extra_files"}
    /\ get_phase_from_path(ListOf(batch, batch.pc)[batch.idx]) = "None"
    /\ batch' = on_failure(batch)
    /\ UNCHANGED <<base_path_internal, base_path_external>>
    /\ UNCHANGED <<files, dirs, project_name, quarter, item_name, phase, now, hist, pb,
                 document_patterns, scan, extra_files, loaded, run>>

\* a file whose phase is known: copied by the function of its list
ExecuteCopyFile(fault) ==
    /\ batch.pc \in {"documents", "review_records", "extra_files"}
    /\ LET file_path == ListOf(batch, batch.pc)[batch.idx]
           p == get_phase_from_path(file_path)
       IN  /\ p # "None"
           /\ fault = "none" \/ CopyFor(batch, file_path, p, fault)
                                # CopyFor(batch, file_path, p, "none")
           /\ LET out == CopyFor(batch, file_path, p, fault)
              IN  /\ files' = out.files
                  /\ dirs' = out.dirs
                  /\ hist' = Append(hist, Call(OpFor(batch), file_path, batch.mode,
                                               fault, out))
                  /\ batch' = IF out.ret = "True" THEN on_success(batch)
                              ELSE IF out.ret = "False" THEN on_failure(batch)
                              ELSE [batch EXCEPT !.pc = "raised"]
    /\ UNCHANGED <<base_path_internal, base_path_external>>
    /\ UNCHANGED <<project_name, quarter, item_name, phase, now, pb,
                   document_patterns, scan, extra_files, loaded, run>>

\* the files a batch can name: a document, a review record of each tree and
\* a file that lies in no phase folder
BatchDocument == Join(InternalPhaseDir("030"), DocName)
BatchRecordInternal ==
    Join(Join(Join(InternalPhaseDir("030"), artifacts), external_review), PlainName)
BatchRecordExternal == Join(Join(ExternalPhaseDir("030"), artifacts), PlainName)
BatchStray == Join(base_path_internal, DocName)

BatchFiles == {BatchDocument, BatchRecordInternal, BatchRecordExternal, BatchStray}

InitBatch ==
    /\ base_path_internal = InternalRoot
    /\ base_path_external = ExternalRoot
    /\ project_name \in Projects
    /\ quarter \in Quarters
    /\ item_name \in {<<>>, <<"x">>}
    /\ phase = "030"
    /\ now = Now
    /\ files = [q \in BatchFiles |->
                  [content |-> IF InInternal(q) THEN "c1" ELSE "c2", mtime |-> 0]]
    /\ dirs = DirsOf(BatchFiles)
    /\ hist = <<>>
    /\ pb = NoBuild
    /\ document_patterns = NoPatterns
    /\ scan = NoScan
    /\ extra_files = <<>>
    /\ loaded = NoLoad
    /\ run = NoRun
    /\ \E documents \in StringsUpTo(BatchFiles, MaxBatch),
          review_records \in StringsUpTo(BatchFiles, MaxBatch),
          extras \in StringsUpTo(BatchFiles, MaxBatch),
          mode \in OperationMode :
          /\ Len(documents) + Len(review_records) + Len(extras) <= MaxBatch
          /\ LET b == [documents |-> documents, review_records |-> review_records,
                       extra_files |-> extras, mode |-> mode,
                       pc |-> "documents", idx |-> 1,
                       success_count |-> 0, failure_count |-> 0,
                       attempted |-> <<>>]
                 pos == Settle(b, 1, 1)
             IN  batch = [b EXCEPT !.pc = pos.pc, !.idx = pos.idx]

NextBatch ==
    \/ ExecuteCopySkip
    \/ \E fault \in Faults : ExecuteCopyFile(fault)

SpecBatch == InitBatch /\ [][NextBatch]_vars

----------------------------------------------------------------------------
(* file_scanner.py *)

\* datetime.now() with the time of day set to zero
midnight(t) == t - (t % TicksPerDay)

should_include_file(fs, file_path, days_ago, t) ==
    LET cutoff_time == midnight(t) - days_ago * TicksPerDay
        file_mtime == fs[file_path].mtime
    IN  file_mtime >= cutoff_time

\* list(...) of a set of directory entries: the directory order, fixed but unknown
listing(S) ==
    CHOOSE s \in [1..Cardinality(S) -> S] : \A e \in S : \E i \in DOMAIN s : s[i] = e

RECURSIVE scan_patterns(_, _, _, _, _, _)
scan_patterns(fs, ds, phase_dir, patterns, days_ago, recursive) ==
    IF patterns = <<>> THEN <<>>
    ELSE LET pattern == Head(patterns)
             search_pattern == pattern \o <<"_", "*", ".xlsx">>
             matching_files ==
                 listing(IF recursive THEN rglob(fs, ds, phase_dir, search_pattern)
                         ELSE glob(fs, ds, phase_dir, search_pattern))
             Keep(file_path) == /\ is_file(fs, file_path)
                                /\ should_include_file(fs, file_path, days_ago, now)
         IN  SelectSeq(matching_files, Keep)
                 \o scan_patterns(fs, ds, phase_dir, Tail(patterns), days_ago, recursive)

\* a scan that searches the phase folder at every depth
scan_documents_recursive(fs, ds, p, mode, days_ago) ==
    LET base_path == IF mode = "OUTGOING" THEN base_path_internal
                     ELSE base_path_external
        phase_dir == scanner_build_phase_path(base_path, project_name, quarter, item_name, p)
        patterns == document_patterns[p]
    IN  IF ~exists(fs, ds, phase_dir) THEN <<>>
        ELSE IF patterns = <<>> THEN <<>>
        ELSE scan_patterns(fs, ds, phase_dir, patterns, days_ago, TRUE)

\* the first occurrence of each entry of a list
RECURSIVE first_occurrences(_)
first_occurrences(seq) ==
    IF seq = <<>> THEN <<>>
    ELSE LET front == SubSeq(seq, 1, Len(seq) - 1)
             last == seq[Len(seq)]
         IN  IF \E i \in DOMAIN front : front[i] = last
             THEN first_occurrences(front)
             ELSE Append(first_occurrences(front), last)

\* a scan that returns a file once, however many prefixes match it
scan_documents_unique(fs, ds, p, mode, days_ago) ==
    LET base_path == IF mode = "OUTGOING" THEN base_path_internal
                     ELSE base_path_external
        phase_dir == scanner_build_phase_path(base_path, project_name, quarter, item_name, p)
        patterns == document_patterns[p]
    IN  IF ~exists(fs, ds, phase_dir) THEN <<>>
        ELSE IF patterns = <<>> THEN <<>>
        ELSE first_occurrences(scan_patterns(fs, ds, phase_dir, patterns, days_ago, FALSE))

scan_documents(fs, ds, p, mode, days_ago) ==
    LET base_path == IF mode = "OUTGOING" THEN base_path_internal
                     ELSE base_path_external
        phase_dir == scanner_build_phase_path(base_path, project_name, quarter, item_name, p)
        patterns == document_patterns[p]
    IN  IF ~exists(fs, ds, phase_dir) THEN <<>>
        ELSE IF patterns = <<>> THEN <<>>
        ELSE scan_patterns(fs, ds, phase_dir, patterns, days_ago, FALSE)

\* file names in a phase folder: "K_A.xlsx", "KA.xlsx" without the underscore,
\* "K_A.xls" with another suffix, "L_A.xlsx" of another document
ScanNames ==
    {<<"K", "_", "A", ".xlsx">>, <<"K", "A", ".xlsx">>, <<"K", "_", "A", ".xls">>,
     <<"L", "_", "A", ".xlsx">>}

\* a folder whose name reads like a document's: "K_dir.xlsx"
FolderName == <<"K", "_", "dir", ".xlsx">>

\* the prefixes a configuration lists for the phase of the run
PatternLists == {<<>>, << <<"K">> >>, << <<"K">>, <<"L">> >>}

\* the internal phase folder holds files of every name, the external one the
\* two documents, the internal artifacts folder a document
ScanSlots ==
    {Join(InternalPhaseDir(phase), n) : n \in ScanNames}
        \cup {Join(ExternalPhaseDir(phase), n) :
                n \in {<<"K", "_", "A", ".xlsx">>, <<"L", "_", "A", ".xlsx">>}}
        \cup {Join(Join(InternalPhaseDir(phase), artifacts), <<"K", "_", "A", ".xlsx">>)}

\* modification times: the last tick of a day and the first of the next, for
\* yesterday and today
MTimes == {d * TicksPerDay - 1 : d \in 1..2} \cup {d * TicksPerDay : d \in 1..2}

ScanFolders ==
    {Join(d, FolderName) : d \in {InternalPhaseDir(phase), ExternalPhaseDir(phase)}}

InitScan ==
    /\ base_path_internal = InternalRoot
    /\ base_path_external = ExternalRoot
    /\ project_name \in Projects
    /\ quarter \in Quarters
    /\ item_name \in {<<" ">>, <<"x">>}
    /\ phase = "030"
    /\ now = Now
    /\ \E S \in SUBSET ScanSlots :
          /\ Cardinality(S) <= MaxScanFiles
          /\ files \in [S -> [content : {"c1"}, mtime : MTimes]]
          /\ \E extra \in {{}, ScanFolders} :
                dirs = DirsOf(S) \cup DirsOf(extra) \cup extra
    /\ hist = <<>>
    /\ pb = NoBuild
    /\ batch = NoBatch
    /\ \E patterns \in PatternLists :
          document_patterns = [NoPatterns EXCEPT ![phase] = patterns]
    /\ scan = NoScan
    /\ extra_files = <<>>
    /\ loaded = NoLoad
    /\ run = NoRun

ScanDocuments(mode, days_ago) ==
    /\ scan' = [op |-> "scan_documents", phase |-> phase, mode |-> mode,
                days_ago |-> days_ago,
                result |-> scan_documents(files, dirs, phase, mode, days_ago)]
    /\ UNCHANGED <<base_path_internal, base_path_external>>
    /\ UNCHANGED <<files, dirs, project_name, quarter, item_name, phase, now, hist, pb,
                   batch, document_patterns, extra_files, loaded, run>>

NextScan ==
    \E mode \in OperationMode, days_ago \in 0..MaxDaysAgo : ScanDocuments(mode, days_ago)

SpecScan == InitScan /\ [][NextScan]_vars

----------------------------------------------------------------------------
(* file_scanner.py: review records and extra files *)

internal_review == <<"naibu_review">>

\* "RR*.xlsx", the pattern of scan_review_records
review_pattern == <<"RR", "*", ".xlsx">>

keep_recent(fs, found, days_ago) ==
    LET Keep(file_path) == /\ is_file(fs, file_path)
                           /\ should_include_file(fs, file_path, days_ago, now)
    IN  SelectSeq(found, Keep)

\* a review scan that searches the whole artifacts folder in both modes
scan_review_records_artifacts(fs, ds, p, mode, days_ago) ==
    LET base_path == IF mode = "OUTGOING" THEN base_path_internal
                     ELSE base_path_external
        artifacts_dir ==
            Join(scanner_build_phase_path(base_path, project_name, quarter, item_name, p),
                 artifacts)
    IN  IF ~exists(fs, ds, artifacts_dir) THEN <<>>
        ELSE keep_recent(fs, listing(rglob(fs, ds, artifacts_dir, review_pattern)), days_ago)

\* a review scan that searches the whole phase folder when its own folder is missing
scan_review_records_fallback(fs, ds, p, mode, days_ago) ==
    LET base_path == IF mode = "OUTGOING" THEN base_path_internal
                     ELSE base_path_external
        phase_dir == scanner_build_phase_path(base_path, project_name, quarter, item_name, p)
        artifacts_dir == IF mode = "OUTGOING"
                         THEN Join(Join(phase_dir, artifacts), external_review)
                         ELSE Join(phase_dir, artifacts)
        search_dir == IF exists(fs, ds, artifacts_dir) THEN artifacts_dir ELSE phase_dir
    IN  keep_recent(fs, listing(rglob(fs, ds, search_dir, review_pattern)), days_ago)

scan_review_records(fs, ds, p, mode, days_ago) ==
    LET base_path == IF mode = "OUTGOING" THEN base_path_internal
                     ELSE base_path_external
        phase_dir == scanner_build_phase_path(base_path, project_name, quarter, item_name, p)
        artifacts_dir == IF mode = "OUTGOING"
                         THEN Join(Join(phase_dir, artifacts), external_review)
                         ELSE Join(phase_dir, artifacts)
    IN  IF ~exists(fs, ds, artifacts_dir) THEN <<>>
        ELSE keep_recent(fs, listing(rglob(fs, ds, artifacts_dir, review_pattern)), days_ago)

RECURSIVE scan_names(_, _, _, _, _)
scan_names(fs, ds, search_dir, names, days_ago) ==
    IF names = <<>> THEN <<>>
    ELSE keep_recent(fs, listing(rglob(fs, ds, search_dir, Head(names))), days_ago)
             \o scan_names(fs, ds, search_dir, Tail(names), days_ago)

\* an extra file scan that searches the external artifacts folder when incoming
scan_extra_files_both_ways(fs, ds, names, p, mode, days_ago) ==
    LET base_path == IF mode = "OUTGOING" THEN base_path_internal
                     ELSE base_path_external
        phase_dir == scanner_build_phase_path(base_path, project_name, quarter, item_name, p)
        search_dir == IF mode = "OUTGOING"
                      THEN Join(Join(phase_dir, artifacts), external_review)
                      ELSE Join(phase_dir, artifacts)
    IN  IF names = <<>> THEN <<>>
        ELSE IF ~exists(fs, ds, search_dir) THEN <<>>
        ELSE scan_names(fs, ds, search_dir, names, days_ago)

scan_extra_files(fs, ds, names, p, mode, days_ago) ==
    LET base_path == base_path_internal
        search_dir ==
            Join(Join(scanner_build_phase_path(base_path, project_name, quarter,
                                               item_name, p),
                      artifacts),
                 external_review)
    IN  IF names = <<>> THEN <<>>
        ELSE IF mode # "OUTGOING" THEN <<>>
        ELSE IF ~exists(fs, ds, search_dir) THEN <<>>
        ELSE scan_names(fs, ds, search_dir, names, days_ago)

\* review record names "RR_1.xlsx" and "RRchousa.xlsx", "RR_1.xls" with
\* another suffix, and a file that is no review record, "memo.xlsx"
SeparatorName == <<"RR", "_", "1", ".xlsx">>
BareName == <<"RR", "chousa", ".xlsx">>
OtherSuffixName == <<"RR", "_", "1", ".xls">>
MemoName == <<"memo", ".xlsx">>

ExternalReviewDir(p) == Join(Join(InternalPhaseDir(p), artifacts), external_review)

InternalReviewDir(p) == Join(Join(InternalPhaseDir(p), artifacts), internal_review)

ExternalArtifactsDir(p) == Join(ExternalPhaseDir(p), artifacts)

\* where the trees of a review scan hold files
ReviewSlots ==
    {Join(ExternalReviewDir(phase), n) :
        n \in {SeparatorName, BareName, OtherSuffixName, MemoName}}
      \cup {Join(Join(ExternalReviewDir(phase), date_folder), n) :
              n \in {SeparatorName, MemoName}}
      \cup {Join(InternalReviewDir(phase), n) : n \in {SeparatorName, MemoName}}
      \cup {Join(ExternalArtifactsDir(phase), n) : n \in {SeparatorName, BareName, MemoName}}
      \cup {Join(Join(ExternalArtifactsDir(phase), date_folder), SeparatorName)}
      \cup {Join(InternalPhaseDir(phase), DocName)}

\* a folder named like a review record: "RRdir.xlsx"
ReviewFolders == {Join(ExternalReviewDir(phase), <<"RR", "dir", ".xlsx">>)}

\* modification times: the last tick of yesterday and the first of today
ReviewTimes == {2 * TicksPerDay - 1, 2 * TicksPerDay}

\* what a configuration lists: prefixes of the phase, extra file names
ReviewConfigs ==
    {[patterns |-> << <<"K">> >>, extras |-> <<>>],
     [patterns |-> <<>>, extras |-> <<MemoName>>],
     [patterns |-> << <<"K">> >>, extras |-> <<MemoName>>]}

InitReview ==
    /\ base_path_internal = InternalRoot
    /\ base_path_external = ExternalRoot
    /\ project_name \in Projects
    /\ quarter \in Quarters
    /\ item_name = <<"x">>
    /\ phase = "030"
    /\ now = Now
    /\ \E S \in SUBSET (ReviewSlots \cup ReviewFolders) :
          /\ Cardinality(S) <= MaxReviewFiles
          /\ files \in [S \cap ReviewSlots -> [content : {"c1"}, mtime : ReviewTimes]]
          /\ dirs = DirsOf(S) \cup (S \cap ReviewFolders)
    /\ hist = <<>>
    /\ pb = NoBuild
    /\ batch = NoBatch
    /\ \E c \in ReviewConfigs :
          /\ document_patterns = [NoPatterns EXCEPT ![phase] = c.patterns]
          /\ extra_files = c.extras
    /\ scan = NoScan
    /\ loaded = NoLoad
    /\ run = NoRun

Scanned(op, mode, days_ago, result) ==
    /\ scan' = [op |-> op, phase |-> phase, mode |-> mode, days_ago |-> days_ago,
                result |-> result]
    /\ UNCHANGED <<base_path_internal, base_path_external>>
    /\ UNCHANGED <<files, dirs, project_name, quarter, item_name, phase, now, hist, pb,
                   batch, document_patterns, extra_files, loaded, run>>

ScanReviewRecords(mode, days_ago) ==
    Scanned("scan_review_records", mode, days_ago,
            scan_review_records(files, dirs, phase, mode, days_ago))

ScanExtraFiles(mode, days_ago) ==
    Scanned("scan_extra_files", mode, days_ago,
            scan_extra_files(files, dirs, extra_files, phase, mode, days_ago))

NextReview ==
    \E mode \in OperationMode, days_ago \in 0..MaxDaysAgo :
        \/ ScanDocuments(mode, days_ago)
        \/ ScanReviewRecords(mode, days_ago)
        \/ ScanExtraFiles(mode, days_ago)

SpecReview == InitReview /\ [][NextReview]_vars

----------------------------------------------------------------------------
(* config_loader.py *)

\* Optional[str] without a value
None == <<"None">>

Sections == {"Paths", "Documents", "ExtraFiles", "Project"}

\* the options load_config reads with parser.get, in the order it reads them
RequiredOptions ==
    << <<"Paths", "base_path_internal">>, <<"Paths", "base_path_external">>,
       <<"Documents", "030">>, <<"Documents", "040">>, <<"Documents", "050">>,
       <<"Documents", "060">>, <<"Documents", "070">>, <<"Documents", "080">>,
       <<"Documents", "090">>, <<"ExtraFiles", "include_files">> >>

ProjectOptions == {"project_name", "quarter", "item_name"}

OptionsOf(section) ==
    IF section = "Project" THEN ProjectOptions
    ELSE {RequiredOptions[i][2] : i \in {j \in DOMAIN RequiredOptions :
                                            RequiredOptions[j][1] = section}}

\* str.split(","): the pieces between the commas
RECURSIVE split_comma(_)
split_comma(s) ==
    LET commas == {i \in 1..Len(s) : s[i] = ","}
        first == CHOOSE i \in commas : \A j \in commas : i <= j
    IN  IF commas = {} THEN <<s>>
        ELSE <<SubSeq(s, 1, first - 1)>> \o split_comma(SubSeq(s, first + 1, Len(s)))

\* [p.strip() for p in s.split(",") if p.strip()]
RECURSIVE stripped_parts(_)
stripped_parts(parts) ==
    IF parts = <<>> THEN <<>>
    ELSE IF truthy(strip(Head(parts)))
    THEN <<strip(Head(parts))>> \o stripped_parts(Tail(parts))
    ELSE stripped_parts(Tail(parts))

parse_list(value) == IF truthy(strip(value)) THEN stripped_parts(split_comma(value)) ELSE <<>>

\* parser.get(section, option)
parser_get(ini, section, option) ==
    IF section \notin DOMAIN ini.sections THEN [exc |-> "NoSectionError"]
    ELSE IF option \notin DOMAIN ini.sections[section] THEN [exc |-> "NoOptionError"]
    ELSE [exc |-> "none", value |-> ini.sections[section][option]]

\* the optional values of the Project section: stripped, None when blank or absent
project_option(ini, option) ==
    IF "Project" \in DOMAIN ini.sections /\ option \in DOMAIN ini.sections["Project"]
    THEN LET v == strip(ini.sections["Project"][option])
         IN  IF truthy(v) THEN v ELSE None
    ELSE None

\* a loader that takes an absent option of the Documents section as empty
load_config_lenient(ini) ==
    LET need == {i \in DOMAIN RequiredOptions :
                    /\ RequiredOptions[i][1] # "Documents"
                    /\ parser_get(ini, RequiredOptions[i][1], RequiredOptions[i][2]).exc
                           # "none"}
        first == CHOOSE i \in need : \A j \in need : i <= j
        Get(section, option) ==
            IF parser_get(ini, section, option).exc = "none"
            THEN parser_get(ini, section, option).value ELSE <<>>
    IN  IF ~ini.exists THEN [exc |-> "FileNotFoundError"]
        ELSE IF need # {}
        THEN [exc |-> parser_get(ini, RequiredOptions[first][1],
                                 RequiredOptions[first][2]).exc]
        ELSE [exc |-> "none",
              config |->
                [base_path_internal |-> <<Get("Paths", "base_path_internal")>>,
                 base_path_external |-> <<Get("Paths", "base_path_external")>>,
                 document_patterns |->
                     [p \in PhaseCode |-> parse_list(Get("Documents", p))],
                 extra_files |-> parse_list(Get("ExtraFiles", "include_files")),
                 project_name |-> project_option(ini, "project_name"),
                 quarter |-> project_option(ini, "quarter"),
                 item_name |-> project_option(ini, "item_name")]]

load_config(ini) ==
    LET missing == {i \in DOMAIN RequiredOptions :
                      parser_get(ini, RequiredOptions[i][1], RequiredOptions[i][2]).exc
                          # "none"}
        first == CHOOSE i \in missing : \A j \in missing : i <= j
        Get(section, option) == parser_get(ini, section, option).value
    IN  IF ~ini.exists THEN [exc |-> "FileNotFoundError"]
        ELSE IF missing # {}
        THEN [exc |-> parser_get(ini, RequiredOptions[first][1],
                                 RequiredOptions[first][2]).exc]
        ELSE [exc |-> "none",
              config |->
                [base_path_internal |-> <<Get("Paths", "base_path_internal")>>,
                 base_path_external |-> <<Get("Paths", "base_path_external")>>,
                 document_patterns |->
                     [p \in PhaseCode |-> parse_list(Get("Documents", p))],
                 extra_files |-> parse_list(Get("ExtraFiles", "include_files")),
                 project_name |-> project_option(ini, "project_name"),
                 quarter |-> project_option(ini, "quarter"),
                 item_name |-> project_option(ini, "item_name")]]

\* what the options of a configuration file say
ValueOf(section, option) ==
    CASE option = "base_path_internal" -> <<"internal">>
      [] option = "base_path_external" -> <<"external">>
      [] option = "030" -> <<" ", "K", ",", " ">>
      [] option = "040" -> <<" ">>
      [] option = "include_files" -> <<"memo", ".xlsx", ",", " ">>
      [] option = "project_name" -> <<"P">>
      [] option = "quarter" -> <<"2025_4Q">>
      [] option = "item_name" -> <<" ">>
      [] OTHER -> <<>>

\* a file with the given options in the given sections
IniWith(present, options) ==
    [exists |-> TRUE,
     sections |-> [sec \in present |->
                     [o \in OptionsOf(sec) \cap options |-> ValueOf(sec, o)]]]

\* a file that does not exist: nothing is read from it
NoFile == [exists |-> FALSE, sections |-> <<>>]

AllOptions == UNION {OptionsOf(sec) : sec \in Sections}

InitConfig ==
    /\ base_path_internal = InternalRoot
    /\ base_path_external = ExternalRoot
    /\ project_name \in Projects
    /\ quarter \in Quarters
    /\ item_name = <<>>
    /\ phase = "030"
    /\ now = Now
    /\ files = <<>>
    /\ dirs = {}
    /\ hist = <<>>
    /\ pb = NoBuild
    /\ batch = NoBatch
    /\ document_patterns = NoPatterns
    /\ extra_files = <<>>
    /\ scan = NoScan
    /\ run = NoRun
    /\ \E present \in SUBSET Sections, options \in SUBSET AllOptions :
          \E ini \in {NoFile, IniWith(present, options)} :
              loaded = [op |-> "none", file |-> ini]

LoadConfig ==
    /\ loaded.op = "none"
    /\ LET out == load_config(loaded.file)
       IN  /\ loaded' = [op |-> "load_config", file |-> loaded.file, exc |-> out.exc,
                         config |-> IF out.exc = "none" THEN out.config ELSE None]
           /\ document_patterns' = IF out.exc = "none" THEN out.config.document_patterns
                                   ELSE document_patterns
           /\ extra_files' = IF out.exc = "none" THEN out.config.extra_files
                             ELSE extra_files
    /\ UNCHANGED <<base_path_internal, base_path_external>>
    /\ UNCHANGED <<files, dirs, project_name, quarter, item_name, phase, now, hist, pb,
                   batch, scan, run>>

NextConfig == LoadConfig

SpecConfig == InitConfig /\ [][NextConfig]_vars

----------------------------------------------------------------------------
(* file_scanner.py: should_include_file as a call *)

\* datetime.min, the earliest time a datetime can hold, as a tick
datetime_min == 0

\* midnight - timedelta(days=days_ago) leaves the range of datetime
cutoff_overflows(days_ago, t) == midnight(t) - days_ago * TicksPerDay < datetime_min

\* what a call of should_include_file returns or raises
should_include_file_call(fs, file_path, days_ago, t) ==
    IF cutoff_overflows(days_ago, t) THEN "OverflowError"
    ELSE IF should_include_file(fs, file_path, days_ago, t) THEN "True"
    ELSE "False"

\* the days a user can ask for: a negative number, and numbers up to the
\* days since datetime.min and beyond
RecencyDays == (0 - 1)..(MaxDaysAgo + 2)

RecencyFile == Join(InternalPhaseDir("030"), DocName)

InitRecency ==
    /\ base_path_internal = InternalRoot
    /\ base_path_external = ExternalRoot
    /\ project_name \in Projects
    /\ quarter \in Quarters
    /\ item_name = <<>>
    /\ phase = "030"
    /\ now \in TicksPerDay..(3 * TicksPerDay - 1)
    /\ \E mtime \in 0..(3 * TicksPerDay) :
          files = [q \in {RecencyFile} |-> [content |-> "c1", mtime |-> mtime]]
    /\ dirs = DirsOf({RecencyFile})
    /\ hist = <<>>
    /\ pb = NoBuild
    /\ batch = NoBatch
    /\ document_patterns = NoPatterns
    /\ extra_files = <<>>
    /\ scan = NoScan
    /\ loaded = NoLoad
    /\ run = NoRun

ShouldIncludeFile(days_ago) ==
    /\ scan' = [op |-> "should_include_file", file_path |-> RecencyFile,
                days_ago |-> days_ago,
                result |-> should_include_file_call(files, RecencyFile, days_ago, now)]
    /\ UNCHANGED <<base_path_internal, base_path_external>>
    /\ UNCHANGED <<files, dirs, project_name, quarter, item_name, phase, now, hist, pb,
                   batch, document_patterns, extra_files, loaded, run>>

NextRecency == \E days_ago \in RecencyDays : ShouldIncludeFile(days_ago)

SpecRecency == InitRecency /\ [][NextRecency]_vars

----------------------------------------------------------------------------
(* excel_checker.py *)

\* the cells check_review_record reads, by the content of the file
workbook(content) ==
    CASE content = "c1" -> [AE2 |-> <<"title">>, AE8 |-> <<"member">>, AE7 |-> <<"guest">>]
      [] content = "c2" -> [AE2 |-> <<" ">>, AE8 |-> <<"member">>, AE7 |-> <<"guest">>]

\* a cell that holds the number 0: a value that is no string
Number == <<"int", "0">>

isinstance_str(value) == value # None /\ value # Number

\* _is_cell_empty: None, or a string that is empty once stripped
is_cell_empty(value) == value = None \/ (isinstance_str(value) /\ ~truthy(strip(value)))

\* "(shagai)" in name: the review record literal "RR" holds it
external_in(name) == \E i \in DOMAIN name : name[i] \in {"RR", "(shagai)"}

\* "shagai" in name, with or without the brackets
shagai_in(name) == \E i \in DOMAIN name : name[i] \in {"RR", "(shagai)", "shagai"}

\* load_workbook(file_path, data_only=True) and wb.active: the active sheet of
\* the file's spreadsheet, or the exception raised on the way to it
load_workbook(fs, file_path, fault) ==
    IF fault = "open_denied" THEN [exc |-> "PermissionError"]
    ELSE IF ~is_file(fs, file_path) THEN [exc |-> "FileNotFoundError"]
    ELSE IF "cells" \in DOMAIN fs[file_path]
    THEN [exc |-> "none", ws |-> fs[file_path].cells]
    ELSE IF fs[file_path].content \in Contents
    THEN [exc |-> "none", ws |-> workbook(fs[file_path].content)]
    ELSE [exc |-> "InvalidFileException"]

\* the except clauses both checks end with
check_except(exc) ==
    CASE exc = "PermissionError" -> <<"access_error">>
      [] exc = "FileNotFoundError" -> <<"not_found">>
      [] OTHER -> <<"read_error">>

Message(blank, cell) == IF blank THEN <<cell>> ELSE <<>>

\* a check of the review record that asks for AE7 whatever the file is called
check_review_record_any_name(fs, file_path, fault) ==
    LET wb == load_workbook(fs, file_path, fault)
        errors ==
            IF wb.exc # "none" THEN check_except(wb.exc)
            ELSE Message(is_cell_empty(wb.ws.AE2), "AE2")
                   \o Message(is_cell_empty(wb.ws.AE8), "AE8")
                   \o Message(is_cell_empty(wb.ws.AE7), "AE7")
    IN  [exc |-> "none", is_ok |-> Len(errors) = 0, errors |-> errors]

check_review_record(fs, file_path, fault) ==
    LET wb == load_workbook(fs, file_path, fault)
        errors ==
            IF wb.exc # "none" THEN check_except(wb.exc)
            ELSE Message(is_cell_empty(wb.ws.AE2), "AE2")
                   \o Message(is_cell_empty(wb.ws.AE8), "AE8")
                   \o Message(external_in(Name(file_path)) /\ is_cell_empty(wb.ws.AE7),
                              "AE7")
    IN  [exc |-> "none", is_ok |-> Len(errors) = 0, errors |-> errors]

\* a check of the checklist that lets a PermissionError pass to its caller
check_review_checklist_reraise(fs, file_path, fault) ==
    LET wb == load_workbook(fs, file_path, fault)
        errors ==
            IF wb.exc # "none" THEN check_except(wb.exc)
            ELSE Message(is_cell_empty(wb.ws.E4), "E4")
                   \o Message(is_cell_empty(wb.ws.E5), "E5")
                   \o Message(is_cell_empty(wb.ws.E6), "E6")
                   \o Message(is_cell_empty(wb.ws.N6), "N6")
                   \o Message(shagai_in(Name(file_path)) /\ is_cell_empty(wb.ws.M15),
                              "M15")
    IN  IF wb.exc = "PermissionError"
        THEN [exc |-> "PermissionError", is_ok |-> FALSE, errors |-> <<>>]
        ELSE [exc |-> "none", is_ok |-> Len(errors) = 0, errors |-> errors]

check_review_checklist(fs, file_path, fault) ==
    LET wb == load_workbook(fs, file_path, fault)
        errors ==
            IF wb.exc # "none" THEN check_except(wb.exc)
            ELSE Message(is_cell_empty(wb.ws.E4), "E4")
                   \o Message(is_cell_empty(wb.ws.E5), "E5")
                   \o Message(is_cell_empty(wb.ws.E6), "E6")
                   \o Message(is_cell_empty(wb.ws.N6), "N6")
                   \o Message(shagai_in(Name(file_path)) /\ is_cell_empty(wb.ws.M15),
                              "M15")
    IN  [exc |-> "none", is_ok |-> Len(errors) = 0, errors |-> errors]

\* what a cell can hold
CellValues == {None, <<>>, <<" ">>, <<"x">>, Number}

\* the second of these only where the first is drawn for the cells beside it
FewValues == {None, <<"x">>}

\* the sheets a spreadsheet can open on: every cell either check reads
Sheets ==
    {[AE2 |-> ae2, AE8 |-> ae8, AE7 |-> ae7,
      E4 |-> <<"x">>, E5 |-> <<"x">>, E6 |-> <<"x">>, N6 |-> <<"x">>, M15 |-> <<"x">>] :
        ae2 \in CellValues, ae8 \in CellValues, ae7 \in CellValues}
    \cup
    {[AE2 |-> <<"x">>, AE8 |-> <<"x">>, AE7 |-> <<"x">>,
      E4 |-> e4, E5 |-> e5, E6 |-> e6, N6 |-> n6, M15 |-> m15] :
        e4 \in CellValues, e5 \in FewValues, e6 \in FewValues, n6 \in CellValues,
        m15 \in CellValues}

\* a review record for an outside review, one for an inside review, and a
\* checklist named with "shagai" without brackets
CheckedNames ==
    {<<"RR", "_", "1", ".xlsx">>, <<"R", "_", "1", ".xlsx">>,
     <<"CL", "shagai", ".xlsx">>}

CheckedFile(name) == Join(Join(ExternalReviewDir("030"), date_folder), name)

InitExcel ==
    /\ base_path_internal = InternalRoot
    /\ base_path_external = ExternalRoot
    /\ project_name \in Projects
    /\ quarter \in Quarters
    /\ item_name = <<>>
    /\ phase = "030"
    /\ now = Now
    /\ \E name \in CheckedNames :
          /\ \/ \E cells \in Sheets :
                   files = [q \in {CheckedFile(name)} |->
                              [content |-> "c1", mtime |-> 0, cells |-> cells]]
             \/ files = [q \in {CheckedFile(name)} |-> [content |-> PARTIAL, mtime |-> 0]]
             \/ files = <<>>
          /\ dirs = DirsOf({CheckedFile(name)})
          /\ scan = [op |-> "none", file_path |-> CheckedFile(name)]
    /\ hist = <<>>
    /\ pb = NoBuild
    /\ batch = NoBatch
    /\ document_patterns = NoPatterns
    /\ extra_files = <<>>
    /\ loaded = NoLoad
    /\ run = NoRun

Checked(op, fault, result) ==
    /\ scan' = [op |-> op, file_path |-> scan.file_path, fault |-> fault,
                result |-> result]
    /\ UNCHANGED <<base_path_internal, base_path_external>>
    /\ UNCHANGED <<files, dirs, project_name, quarter, item_name, phase, now, hist, pb,
                   batch, document_patterns, extra_files, loaded, run>>

CheckReviewRecord(fault) ==
    Checked("check_review_record", fault,
            check_review_record(files, scan.file_path, fault))

CheckReviewChecklist(fault) ==
    Checked("check_review_checklist", fault,
            check_review_checklist(files, scan.file_path, fault))

NextExcel ==
    \/ \E fault \in {"none", "open_denied"} : CheckReviewRecord(fault)
    \/ \E fault \in {"none", "open_denied"} : CheckReviewChecklist(fault)

SpecExcel == InitExcel /\ [][NextExcel]_vars

----------------------------------------------------------------------------
(* main.py: the functions of a run *)

\* str.lower, letter by letter
lower(s) ==
    [i \in DOMAIN s |-> CASE s[i] = "A" -> "a"
                          [] s[i] = "L" -> "l"
                          [] s[i] = "Y" -> "y"
                          [] OTHER -> s[i]]

Digits == {"0", "1", "2", "3", "4", "5", "6", "7", "8", "9"}

DigitValue(d) ==
    CASE d = "0" -> 0 [] d = "1" -> 1 [] d = "2" -> 2 [] d = "3" -> 3 [] d = "4" -> 4
      [] d = "5" -> 5 [] d = "6" -> 6 [] d = "7" -> 7 [] d = "8" -> 8 [] d = "9" -> 9

\* the digits of a numeral, its sign taken off
unsigned(t) == IF t # <<>> /\ Head(t) \in {"+", "-"} THEN Tail(t) ELSE t

\* int(s) raises ValueError unless s, stripped, is a run of digits with at most
\* a sign before it
is_int(s) ==
    LET u == unsigned(strip(s)) IN u # <<>> /\ \A i \in DOMAIN u : u[i] \in Digits

RECURSIVE digits_value(_)
digits_value(t) ==
    IF t = <<>> THEN 0
    ELSE 10 * digits_value(SubSeq(t, 1, Len(t) - 1)) + DigitValue(t[Len(t)])

int(s) ==
    LET t == strip(s)
    IN  IF t # <<>> /\ Head(t) = "-" THEN 0 - digits_value(Tail(t))
        ELSE digits_value(unsigned(t))

\* str.split("-")
RECURSIVE split_dash(_)
split_dash(s) ==
    LET dashes == {i \in 1..Len(s) : s[i] = "-"}
        first == CHOOSE i \in dashes : \A j \in dashes : i <= j
    IN  IF dashes = {} THEN <<s>>
        ELSE <<SubSeq(s, 1, first - 1)>> \o split_dash(SubSeq(s, first + 1, Len(s)))

\* a part whose range is not cut at max_index
part_indices_open_range(raw, max_index) ==
    LET part == strip(raw)
        pieces == split_dash(part)
    IN  IF \E i \in DOMAIN part : part[i] = "-"
        THEN IF Len(pieces) = 2 /\ is_int(pieces[1]) /\ is_int(pieces[2])
             THEN {i \in int(pieces[1])..int(pieces[2]) : 1 <= i}
             ELSE {}
        ELSE IF is_int(part) /\ 1 <= int(part) /\ int(part) <= max_index
        THEN {int(part)}
        ELSE {}

\* the indices one part of the selection stands for
part_indices(raw, max_index) ==
    LET part == strip(raw)
        pieces == split_dash(part)
    IN  IF \E i \in DOMAIN part : part[i] = "-"
        THEN IF Len(pieces) = 2 /\ is_int(pieces[1]) /\ is_int(pieces[2])
             THEN {i \in int(pieces[1])..int(pieces[2]) : 1 <= i /\ i <= max_index}
             ELSE {}
        ELSE IF is_int(part) /\ 1 <= int(part) /\ int(part) <= max_index
        THEN {int(part)}
        ELSE {}

parse_selection_input(user_input, max_index) ==
    LET parts == split_comma(user_input)
    IN  UNION {part_indices(parts[k], max_index) : k \in DOMAIN parts}

NoFiles == [documents |-> <<>>, review_records |-> <<>>, extra_files |-> <<>>]

\* a filter whose "documents" choice leaves the extra files out
apply_file_type_filter_documents_alone(all_files, file_type_filter) ==
    IF file_type_filter = "all" THEN all_files
    ELSE IF file_type_filter = "documents"
    THEN [documents |-> all_files.documents, review_records |-> <<>>,
          extra_files |-> <<>>]
    ELSE IF file_type_filter = "reviews"
    THEN [documents |-> <<>>, review_records |-> all_files.review_records,
          extra_files |-> <<>>]
    ELSE [documents |-> <<>>, review_records |-> <<>>, extra_files |-> <<>>]

apply_file_type_filter(all_files, file_type_filter) ==
    IF file_type_filter = "all" THEN all_files
    ELSE IF file_type_filter = "documents"
    THEN [NoFiles EXCEPT !.documents = all_files.documents,
                         !.extra_files = all_files.extra_files]
    ELSE IF file_type_filter = "reviews"
    THEN [NoFiles EXCEPT !.review_records = all_files.review_records]
    ELSE NoFiles

\* a list whose numbers start again at 1 in each category
create_indexed_file_list_per_category(all_files) ==
    LET Tag(category, list) ==
            [i \in DOMAIN list |->
                [index |-> i, category |-> category, file_path |-> list[i]]]
    IN  Tag("documents", all_files.documents)
            \o Tag("review_records", all_files.review_records)
            \o Tag("extra_files", all_files.extra_files)

\* the list of (index, category, file_path)
create_indexed_file_list(all_files) ==
    LET Tag(category, list) ==
            [i \in DOMAIN list |-> [category |-> category, file_path |-> list[i]]]
        entries == Tag("documents", all_files.documents)
                       \o Tag("review_records", all_files.review_records)
                       \o Tag("extra_files", all_files.extra_files)
    IN  [i \in DOMAIN entries |->
            [index |-> i, category |-> entries[i].category,
             file_path |-> entries[i].file_path]]

\* the status text select_individual_files prints behind a file
status_text(fs, mode, entry) ==
    IF mode = "OUTGOING" /\ entry.category = "review_records"
    THEN IF check_review_record(fs, entry.file_path, "none").is_ok THEN "[OK]"
         ELSE "[NG]"
    ELSE ""

OfCategory(indexed_list, selected_indices, category) ==
    LET Chosen(entry) == entry.index \in selected_indices /\ entry.category = category
        chosen == SelectSeq(indexed_list, Chosen)
    IN  [i \in DOMAIN chosen |-> chosen[i].file_path]

\* a selection that leaves out the review records whose check failed
select_individual_files_ok_only(fs, all_files, mode, selection_input) ==
    LET indexed_list == create_indexed_file_list(all_files)
        selected_indices == parse_selection_input(selection_input, Len(indexed_list))
        Passed(entry) == status_text(fs, mode, entry) # "[NG]"
        passed == SelectSeq(indexed_list, Passed)
        indices == IF lower(selection_input) = <<"a", "l", "l">>
                   THEN {passed[i].index : i \in DOMAIN passed}
                   ELSE selected_indices \cap {passed[i].index : i \in DOMAIN passed}
    IN  IF indexed_list = <<>> THEN all_files
        ELSE IF ~truthy(selection_input) THEN NoFiles
        ELSE [documents |-> OfCategory(indexed_list, indices, "documents"),
              review_records |-> OfCategory(indexed_list, indices, "review_records"),
              extra_files |-> OfCategory(indexed_list, indices, "extra_files")]

\* select_individual_files, given the stripped answer to its prompt
select_individual_files(fs, all_files, mode, selection_input) ==
    LET indexed_list == create_indexed_file_list(all_files)
        selected_indices == parse_selection_input(selection_input, Len(indexed_list))
    IN  IF indexed_list = <<>> THEN all_files
        ELSE IF ~truthy(selection_input) THEN NoFiles
        ELSE IF lower(selection_input) = <<"a", "l", "l">> THEN all_files
        ELSE IF selected_indices = {} THEN NoFiles
        ELSE [documents |-> OfCategory(indexed_list, selected_indices, "documents"),
              review_records |->
                  OfCategory(indexed_list, selected_indices, "review_records"),
              extra_files |-> OfCategory(indexed_list, selected_indices, "extra_files")]

RECURSIVE scan_phases(_, _, _, _, _, _)
scan_phases(fs, ds, names, phases, mode, days_ago) ==
    IF phases = <<>> THEN NoFiles
    ELSE LET p == Head(phases)
             rest == scan_phases(fs, ds, names, Tail(phases), mode, days_ago)
             docs == scan_documents(fs, ds, p, mode, days_ago)
             records == scan_review_records(fs, ds, p, mode, days_ago)
             extras == IF mode = "OUTGOING"
                       THEN scan_extra_files(fs, ds, names, p, mode, days_ago)
                       ELSE <<>>
         IN  [documents |-> docs \o rest.documents,
              review_records |-> records \o rest.review_records,
              extra_files |-> extras \o rest.extra_files]

\* the days_ago whose cutoff is datetime.min: every file passes
every_day(t) == (midnight(t) - datetime_min) \div TicksPerDay

\* scan_all_files: the three lists, or the OverflowError of the first file
\* whose time is compared with a cutoff out of range
scan_all_files(fs, ds, names, phases, mode, days_ago) ==
    LET tested == scan_phases(fs, ds, names, phases, mode, every_day(now))
    IN  IF cutoff_overflows(days_ago, now)
        THEN IF tested = NoFiles THEN [exc |-> "none", all_files |-> NoFiles]
             ELSE [exc |-> "OverflowError", all_files |-> NoFiles]
        ELSE [exc |-> "none",
              all_files |-> scan_phases(fs, ds, names, phases, mode, days_ago)]

----------------------------------------------------------------------------
(* main.py: the functions of a run, called alone *)

\* what is typed at the selection prompt
SelectionTokens == {"0", "1", "2", ",", "-", " ", "+", "x"}

InitSelect ==
    /\ base_path_internal = InternalRoot
    /\ base_path_external = ExternalRoot
    /\ project_name \in Projects
    /\ quarter \in Quarters
    /\ item_name = <<>>
    /\ phase = "030"
    /\ now = Now
    /\ files = <<>>
    /\ dirs = {}
    /\ hist = <<>>
    /\ pb = NoBuild
    /\ batch = NoBatch
    /\ document_patterns = NoPatterns
    /\ extra_files = <<>>
    /\ scan = NoScan
    /\ loaded = NoLoad
    /\ \E user_input \in StringsUpTo(SelectionTokens, MaxInputLen),
          max_index \in 0..MaxIndex :
          run = [pc |-> "idle", op |-> "none", user_input |-> user_input,
                 max_index |-> max_index]

ParseSelectionInput ==
    /\ run.op = "none"
    /\ "user_input" \in DOMAIN run
    /\ run' = [run EXCEPT !.op = "parse_selection_input"]
                  @@ [exc |-> "none",
                      result |-> parse_selection_input(run.user_input, run.max_index)]
    /\ UNCHANGED <<base_path_internal, base_path_external>>
    /\ UNCHANGED <<files, dirs, project_name, quarter, item_name, phase, now, hist, pb,
                   batch, document_patterns, scan, extra_files, loaded>>

NextSelect == ParseSelectionInput

SpecSelect == InitSelect /\ [][NextSelect]_vars

\* the files of a scan result handed to the filter and to the list
ListedFiles ==
    {Join(InternalPhaseDir("030"), DocName),
     Join(Join(ExternalReviewDir("030"), date_folder), SeparatorName)}

FileTypeFilters == {"all", "documents", "reviews", "other"}

InitLists ==
    /\ base_path_internal = InternalRoot
    /\ base_path_external = ExternalRoot
    /\ project_name \in Projects
    /\ quarter \in Quarters
    /\ item_name = <<>>
    /\ phase = "030"
    /\ now = Now
    /\ files = <<>>
    /\ dirs = {}
    /\ hist = <<>>
    /\ pb = NoBuild
    /\ batch = NoBatch
    /\ document_patterns = NoPatterns
    /\ extra_files = <<>>
    /\ scan = NoScan
    /\ loaded = NoLoad
    /\ \E documents \in StringsUpTo(ListedFiles, MaxListLen),
          review_records \in StringsUpTo(ListedFiles, MaxListLen),
          extras \in StringsUpTo(ListedFiles, MaxListLen) :
          run = [pc |-> "idle", op |-> "none",
                 all_files |-> [documents |-> documents,
                                review_records |-> review_records,
                                extra_files |-> extras]]

ApplyFileTypeFilter(file_type_filter) ==
    /\ run.op = "none"
    /\ run' = [run EXCEPT !.op = "apply_file_type_filter"]
                  @@ [file_type_filter |-> file_type_filter,
                      result |-> apply_file_type_filter(run.all_files, file_type_filter)]
    /\ UNCHANGED <<base_path_internal, base_path_external>>
    /\ UNCHANGED <<files, dirs, project_name, quarter, item_name, phase, now, hist, pb,
                   batch, document_patterns, scan, extra_files, loaded>>

CreateIndexedFileList ==
    /\ run.op = "none"
    /\ run' = [run EXCEPT !.op = "create_indexed_file_list"]
                  @@ [result |-> create_indexed_file_list(run.all_files)]
    /\ UNCHANGED <<base_path_internal, base_path_external>>
    /\ UNCHANGED <<files, dirs, project_name, quarter, item_name, phase, now, hist, pb,
                   batch, document_patterns, scan, extra_files, loaded>>

NextLists ==
    \/ \E file_type_filter \in FileTypeFilters : ApplyFileTypeFilter(file_type_filter)
    \/ CreateIndexedFileList

SpecLists == InitLists /\ [][NextLists]_vars

----------------------------------------------------------------------------
(* main.py: a run *)

\* int(days_input), 0 when it raises ValueError
days_of(days_input) ==
    LET t == strip(days_input) IN IF is_int(t) THEN int(t) ELSE 0

all_phases == <<"030", "040", "050", "060", "070", "080", "090">>

phase_mapping(phase_choice) ==
    CASE phase_choice = <<"1">> -> <<"030">>
      [] phase_choice = <<"2">> -> <<"040">>
      [] phase_choice = <<"3">> -> <<"050">>
      [] phase_choice = <<"4">> -> <<"060">>
      [] phase_choice = <<"5">> -> <<"070">>
      [] phase_choice = <<"6">> -> <<"080">>
      [] phase_choice = <<"7">> -> <<"090">>
      [] OTHER -> all_phases

file_type_mapping(file_type_choice) ==
    CASE file_type_choice = <<"1">> -> "all"
      [] file_type_choice = <<"2">> -> "documents"
      [] file_type_choice = <<"3">> -> "reviews"
      [] OTHER -> "all"

total_count(all_files) ==
    Len(all_files.documents) + Len(all_files.review_records) + Len(all_files.extra_files)

\* the files a run can find, with what they hold and when they were written
MainSlots ==
    {[path |-> Join(InternalPhaseDir("030"), DocName), content |-> "c1",
      mtime |-> 2 * TicksPerDay],
     [path |-> Join(InternalPhaseDir("030"), DocName), content |-> "c1",
      mtime |-> 2 * TicksPerDay - 1],
     [path |-> Join(Join(ExternalReviewDir("030"), date_folder), SeparatorName),
      content |-> "c1", mtime |-> 2 * TicksPerDay],
     [path |-> Join(Join(ExternalReviewDir("030"), date_folder), SeparatorName),
      content |-> "c2", mtime |-> 2 * TicksPerDay],
     [path |-> Join(ExternalReviewDir("030"), MemoName), content |-> "c1",
      mtime |-> 2 * TicksPerDay],
     [path |-> Join(ExternalPhaseDir("030"), DocName), content |-> "c2",
      mtime |-> 2 * TicksPerDay],
     [path |-> Join(ExternalArtifactsDir("030"), SeparatorName), content |-> "c2",
      mtime |-> 2 * TicksPerDay],
     [path |-> Join(ExternalArtifactsDir("030"), MemoName), content |-> "c2",
      mtime |-> 2 * TicksPerDay]}

\* the configuration files a run can be started with
MainConfigs ==
    {NoFile,
     IniWith({"Documents", "ExtraFiles"}, AllOptions),
     IniWith((Sections \ {"Project"}), AllOptions \ {"090"}),
     IniWith((Sections \ {"Project"}), AllOptions),
     IniWith(Sections, AllOptions)}

PhaseChoices == {<<"1">>, <<"8">>}
ModeChoices == {<<"1">>, <<"2">>}
FileTypeChoices == {<<"1">>, <<"2">>, <<"3">>}
DaysInputs == {<<"0">>, <<"1">>, <<"x">>, <<"9">>}
SelectionInputs ==
    {<<>>, <<"A", "L", "L">>, <<" ", "1">>, <<"2">>, <<"1", "-", "2">>, <<"x", ",", "3">>}
ConfirmInputs == {<<"y">>, <<" ", "Y">>, <<"n">>, <<>>}

InitMain ==
    /\ base_path_internal = InternalRoot
    /\ base_path_external = ExternalRoot
    /\ project_name \in Projects
    /\ quarter \in Quarters
    /\ item_name \in {<<>>, <<"x">>}
    /\ phase = "030"
    /\ now = Now
    /\ \E S \in SUBSET MainSlots :
          /\ Cardinality(S) <= MaxMainFiles
          /\ \A a, b \in S : a.path = b.path => a = b
          /\ files = [q \in {a.path : a \in S} |->
                        LET a == CHOOSE b \in S : b.path = q
                        IN  [content |-> a.content, mtime |-> a.mtime]]
          /\ dirs = DirsOf({a.path : a \in S})
          /\ run = [pc |-> "start", exit_code |-> "none", prompts |-> 0, scans |-> 0,
                    files0 |-> files, dirs0 |-> dirs]
    /\ hist = <<>>
    /\ pb = NoBuild
    /\ batch = NoBatch
    /\ document_patterns = NoPatterns
    /\ extra_files = <<>>
    /\ scan = NoScan
    /\ \E ini \in MainConfigs : loaded = [op |-> "none", file |-> ini]

\* main up to its first prompt: the configuration is loaded, or the run ends
MainStart ==
    /\ run.pc = "start"
    /\ LET out == load_config(loaded.file)
       IN  IF ~loaded.file.exists
           THEN /\ run' = [run EXCEPT !.pc = "exit", !.exit_code = "1"]
                /\ UNCHANGED <<base_path_internal, base_path_external>>
                /\ UNCHANGED <<loaded, document_patterns, extra_files>>
           ELSE /\ loaded' = [op |-> "load_config", file |-> loaded.file,
                              exc |-> out.exc,
                              config |-> IF out.exc = "none" THEN out.config ELSE None]
                /\ IF out.exc = "none"
                   THEN /\ document_patterns' = out.config.document_patterns
                        /\ extra_files' = out.config.extra_files
                        /\ run' = [run EXCEPT !.pc = "input"]
                   ELSE /\ run' = [run EXCEPT !.pc = "exit", !.exit_code = "1"]
                        /\ UNCHANGED <<base_path_internal, base_path_external>>
                        /\ UNCHANGED <<document_patterns, extra_files>>
    /\ UNCHANGED <<base_path_internal, base_path_external>>
    /\ UNCHANGED <<files, dirs, project_name, quarter, item_name, phase, now, hist, pb,
                   batch, scan>>

\* get_user_input, then the scan, the filter and the list of what was found
GetUserInput(phase_choice, mode_choice, file_type_choice, days_input) ==
    /\ run.pc = "input"
    /\ LET config == loaded.config
           asked == Cardinality({o \in ProjectOptions : config[o] = None})
           phases == phase_mapping(strip(phase_choice))
           mode == IF strip(mode_choice) = <<"1">> THEN "OUTGOING" ELSE "INCOMING"
           file_type_filter == file_type_mapping(strip(file_type_choice))
           days_ago == days_of(days_input)
           out == scan_all_files(files, dirs, extra_files, phases, mode, days_ago)
           filtered_files == apply_file_type_filter(out.all_files, file_type_filter)
           indexed_list == create_indexed_file_list(filtered_files)
           told == [run EXCEPT !.prompts = @ + asked + 4, !.scans = @ + 1]
                       @@ [phases |-> phases, mode |-> mode, days_ago |-> days_ago,
                           file_type_filter |-> file_type_filter,
                           all_files |-> out.all_files,
                           filtered_files |-> filtered_files, exc |-> out.exc]
       IN  /\ project_name' = IF config.project_name # None THEN config.project_name
                              ELSE strip(project_name)
           /\ quarter' = IF config.quarter # None THEN config.quarter ELSE strip(quarter)
           /\ item_name' = IF config.item_name # None THEN config.item_name
                           ELSE strip(item_name)
           /\ run' = IF out.exc # "none"
                     THEN [told EXCEPT !.pc = "exit", !.exit_code = "1"]
                     ELSE IF total_count(filtered_files) = 0
                     THEN [told EXCEPT !.pc = "exit", !.exit_code = "0"]
                     ELSE [told EXCEPT !.pc = "select"]
                              @@ [listed |->
                                    [i \in DOMAIN indexed_list |->
                                        [index |-> indexed_list[i].index,
                                         category |-> indexed_list[i].category,
                                         file_path |-> indexed_list[i].file_path,
                                         status |-> status_text(files, mode,
                                                                indexed_list[i])]]]
    /\ UNCHANGED <<base_path_internal, base_path_external>>
    /\ UNCHANGED <<files, dirs, phase, now, hist, pb, batch, document_patterns,
                   extra_files, scan, loaded>>

\* the answer to the selection prompt
SelectFiles(answer) ==
    /\ run.pc = "select"
    /\ LET selected_files ==
               select_individual_files(files, run.filtered_files, run.mode, strip(answer))
           told == [run EXCEPT !.prompts = @ + 1]
                       @@ [selection_input |-> strip(answer),
                           selected_files |-> selected_files]
       IN  run' = IF total_count(selected_files) = 0
                  THEN [told EXCEPT !.pc = "exit", !.exit_code = "0"]
                  ELSE [told EXCEPT !.pc = "confirm"]
    /\ UNCHANGED <<base_path_internal, base_path_external>>
    /\ UNCHANGED <<files, dirs, project_name, quarter, item_name, phase, now, hist, pb,
                   batch, document_patterns, extra_files, scan, loaded>>

\* execute_copy at its first file
StartBatch(selected_files, mode) ==
    LET b == [documents |-> selected_files.documents,
              review_records |-> selected_files.review_records,
              extra_files |-> selected_files.extra_files, mode |-> mode,
              pc |-> "documents", idx |-> 1, success_count |-> 0, failure_count |-> 0,
              attempted |-> <<>>]
        pos == Settle(b, 1, 1)
    IN  [b EXCEPT !.pc = pos.pc, !.idx = pos.idx]

\* a confirmation prompt at which every answer but "n" starts the copy
Confirm_unless_no(answer) ==
    /\ run.pc = "confirm"
    /\ LET confirm == lower(strip(answer))
           told == [run EXCEPT !.prompts = @ + 1] @@ [confirm |-> confirm]
       IN  IF confirm = <<"n">>
           THEN /\ run' = [told EXCEPT !.pc = "exit", !.exit_code = "0"]
                /\ UNCHANGED batch
           ELSE /\ run' = [told EXCEPT !.pc = "copy"]
                /\ batch' = StartBatch(run.selected_files, run.mode)
    /\ UNCHANGED <<base_path_internal, base_path_external>>
    /\ UNCHANGED <<files, dirs, project_name, quarter, item_name, phase, now, hist, pb,
                   document_patterns, extra_files, scan, loaded>>

\* the answer to the confirmation prompt
Confirm(answer) ==
    /\ run.pc = "confirm"
    /\ LET confirm == lower(strip(answer))
           told == [run EXCEPT !.prompts = @ + 1] @@ [confirm |-> confirm]
       IN  IF confirm # <<"y">>
           THEN /\ run' = [told EXCEPT !.pc = "exit", !.exit_code = "0"]
                /\ UNCHANGED batch
           ELSE /\ run' = [told EXCEPT !.pc = "copy"]
                /\ batch' = StartBatch(run.selected_files, run.mode)
    /\ UNCHANGED <<base_path_internal, base_path_external>>
    /\ UNCHANGED <<files, dirs, project_name, quarter, item_name, phase, now, hist, pb,
                   document_patterns, extra_files, scan, loaded>>

\* execute_copy has returned: the counts are printed and main returns
MainReturn ==
    /\ run.pc = "copy"
    /\ batch.pc \in {"done", "raised"}
    /\ run' = [run EXCEPT !.pc = "exit",
                          !.exit_code = IF batch.pc = "done" THEN "0" ELSE "1"]
    /\ UNCHANGED <<base_path_internal, base_path_external>>
    /\ UNCHANGED <<files, dirs, project_name, quarter, item_name, phase, now, hist, pb,
                   batch, document_patterns, extra_files, scan, loaded>>

\* the files of a run come from the scans, so each lies in a phase folder and
\* execute_copy never meets one whose phase it cannot tell
NextMain ==
    \/ MainStart
    \/ \E phase_choice \in PhaseChoices, mode_choice \in ModeChoices,
          file_type_choice \in FileTypeChoices, days_input \in DaysInputs :
          GetUserInput(phase_choice, mode_choice, file_type_choice, days_input)
    \/ \E answer \in SelectionInputs : SelectFiles(answer)
    \/ \E answer \in ConfirmInputs : Confirm(answer)
    \/ \E fault \in Faults : ExecuteCopyFile(fault)
    \/ MainReturn

SpecMain == InitMain /\ [][NextMain]_vars

----------------------------------------------------------------------------
(* main.py: scan_all_files, execute_copy on all it found, and a scan of the *)
(* other side afterwards                                                     *)

\* a project named like a phase folder, beside the plain one
FlowProjects == Projects \cup {<<"040", ".", "sekkei">>}

\* documents: "K_A_1.xlsx", which the prefixes K and K_A both match, and
\* "K_B.xlsx", which K alone matches
OverlapName == <<"K", "_", "A", "_", "1", ".xlsx">>
OtherName == <<"K", "_", "B", ".xlsx">>

\* the prefix lists of the phase: one prefix, one listed twice, two that
\* overlap
FlowPatterns ==
    {<< <<"K">> >>, << <<"K">>, <<"K">> >>, << <<"K", "_", "A">>, <<"K">> >>}

\* the files of both trees before the scan; a review record and an extra file
\* lie under the same name in two folders of the external review folder
FlowSlots ==
    {[path |-> Join(InternalPhaseDir("030"), OverlapName), content |-> "c1",
      mtime |-> 2 * TicksPerDay],
     [path |-> Join(InternalPhaseDir("030"), OtherName), content |-> "c1",
      mtime |-> 2 * TicksPerDay - 1],
     [path |-> Join(Join(ExternalReviewDir("030"), date_folder), SeparatorName),
      content |-> "c1", mtime |-> 2 * TicksPerDay],
     [path |-> Join(ExternalReviewDir("030"), SeparatorName),
      content |-> "c2", mtime |-> 2 * TicksPerDay],
     [path |-> Join(Join(ExternalReviewDir("030"), date_folder), MemoName),
      content |-> "c2", mtime |-> 2 * TicksPerDay],
     [path |-> Join(ExternalReviewDir("030"), MemoName),
      content |-> "c1", mtime |-> 2 * TicksPerDay],
     [path |-> Join(ExternalPhaseDir("030"), OverlapName), content |-> "c2",
      mtime |-> 2 * TicksPerDay],
     [path |-> Join(ExternalArtifactsDir("030"), SeparatorName), content |-> "c2",
      mtime |-> 2 * TicksPerDay - 1]}

FlowFaults == {"none", "open_denied"}

\* the two roots of a configuration: apart, or one a folder of the other (the
\* external root inside the internal one is tried with every project, the
\* internal root inside the external one with the plain project, and the
\* lists of overlapping prefixes with roots that lie apart and the plain project)
FlowRoots ==
    {[internal |-> InternalRoot, external |-> ExternalRoot],
     [internal |-> InternalRoot, external |-> Append(InternalRoot, <<"external">>)],
     [internal |-> Append(ExternalRoot, <<"internal">>), external |-> ExternalRoot]}

InitFlow ==
    /\ \E roots \in FlowRoots :
          /\ base_path_internal = roots.internal
          /\ base_path_external = roots.external
    /\ project_name \in FlowProjects
    /\ project_name \in Projects \/ base_path_internal = InternalRoot
    /\ quarter \in Quarters
    /\ item_name = <<>>
    /\ phase = "030"
    /\ now = Now
    /\ \E S \in SUBSET FlowSlots :
          /\ Cardinality(S) <= MaxFlowFiles
          /\ files = [q \in {a.path : a \in S} |->
                        LET a == CHOOSE b \in S : b.path = q
                        IN  [content |-> a.content, mtime |-> a.mtime]]
          /\ dirs = DirsOf({a.path : a \in S})
    /\ hist = <<>>
    /\ pb = NoBuild
    /\ batch = NoBatch
    /\ \E patterns \in FlowPatterns :
          /\ document_patterns = [NoPatterns EXCEPT !["030"] = patterns]
          /\ \/ patterns = << <<"K">> >>
             \/ project_name \in Projects /\ base_path_internal = InternalRoot
                                           /\ base_path_external = ExternalRoot
    /\ extra_files = <<MemoName>>
    /\ scan = NoScan
    /\ loaded = NoLoad
    /\ run = [pc |-> "start"]

\* scan_all_files for the phase of the run
FlowScan(mode, days_ago) ==
    /\ run.pc = "start"
    /\ run' = [pc |-> "scanned", mode |-> mode, days_ago |-> days_ago,
               phases |-> <<phase>>, files0 |-> files, dirs0 |-> dirs,
               all_files |-> scan_all_files(files, dirs, extra_files, <<phase>>, mode,
                                            days_ago).all_files]
    /\ UNCHANGED <<base_path_internal, base_path_external>>
    /\ UNCHANGED <<files, dirs, project_name, quarter, item_name, phase, now, hist, pb,
                   batch, document_patterns, scan, extra_files, loaded>>

\* execute_copy is called with all that was found
FlowCopy ==
    /\ run.pc = "scanned"
    /\ total_count(run.all_files) > 0
    /\ batch' = StartBatch(run.all_files, run.mode)
    /\ run' = [run EXCEPT !.pc = "copy"]
    /\ UNCHANGED <<base_path_internal, base_path_external>>
    /\ UNCHANGED <<files, dirs, project_name, quarter, item_name, phase, now, hist, pb,
                   document_patterns, scan, extra_files, loaded>>

\* after execute_copy has returned, scan_all_files for the other direction
FlowRescan ==
    /\ run.pc = "copy"
    /\ batch.pc = "done"
    /\ LET other == IF run.mode = "OUTGOING" THEN "INCOMING" ELSE "OUTGOING"
       IN  run' = [run EXCEPT !.pc = "rescanned"]
                      @@ [files1 |-> files, dirs1 |-> dirs,
                          rescan |-> scan_all_files(files, dirs, extra_files, run.phases,
                                                    other, run.days_ago).all_files]
    /\ UNCHANGED <<base_path_internal, base_path_external>>
    /\ UNCHANGED <<files, dirs, project_name, quarter, item_name, phase, now, hist, pb,
                   batch, document_patterns, scan, extra_files, loaded>>

NextFlow ==
    \/ \E mode \in OperationMode, days_ago \in 0..MaxDaysAgo : FlowScan(mode, days_ago)
    \/ FlowCopy
    \/ \E fault \in FlowFaults : ExecuteCopyFile(fault)
    \/ FlowRescan

SpecFlow == InitFlow /\ [][NextFlow]_vars

----------------------------------------------------------------------------
(* What the claims speak of *)

Blank(s) == \A i \in 1..Len(s) : s[i] \in Whitespace

\* the phase folder names of the directory layout
PhaseFolder(p) ==
    CASE p = "030" -> <<"030", ".", "chousa">>
      [] p = "040" -> <<"040", ".", "sekkei">>
      [] p = "050" -> <<"050", ".", "seizou">>
      [] p = "060" -> <<"060", ".", "UDsakusei">>
      [] p = "070" -> <<"070", ".", "UDshouka">>
      [] p = "080" -> <<"080", ".", "SDsakusei">>
      [] p = "090" -> <<"090", ".", "SDshouka">>

\* the files as the i-th call left them
After(i) == IF i = Len(hist) THEN files ELSE hist[i + 1].pre_files

DirsAfter(i) == IF i = Len(hist) THEN dirs ELSE hist[i + 1].pre_dirs

\* the part of a file system under the internal root
InternalTree(fs) == [q \in {r \in DOMAIN fs : InInternal(r)} |-> fs[q]]

\* the regular files named n under the internal phase path
NamedInternally(fs, n) ==
    {q \in DOMAIN fs : IsProperPrefix(InternalPhaseDir(phase), q) /\ Name(q) = n}

Outgoing(c) ==
    \/ c.op = "copy_document" /\ c.mode = "OUTGOING"
    \/ c.op = "copy_review_record_outgoing"

\* C1: the phase path is root/project/quarter/item/<code>.<name> for a
\* non-blank item and root/project/quarter/<code>.<name> for an empty or
\* whitespace-only one, and a successful copy_document with an empty item
\* writes to <dest root>/project/quarter/<code>.<name>/<file name>.
C1_PhasePath ==
    /\ pb.base # NoPath =>
          pb.copier = IF Blank(item_name)
                      THEN pb.base \o <<project_name, quarter, PhaseFolder(pb.phase)>>
                      ELSE pb.base \o <<project_name, quarter, item_name,
                                        PhaseFolder(pb.phase)>>
    /\ \A i \in DOMAIN hist :
          (hist[i].op = "copy_document" /\ hist[i].ret = "True" /\ item_name = <<>>) =>
             LET root == IF hist[i].mode = "OUTGOING" THEN base_path_external
                         ELSE base_path_internal
                 target == root \o <<project_name, quarter, PhaseFolder(phase),
                                     Name(hist[i].src)>>
             IN  /\ hist[i].dest = target
                 /\ target \in DOMAIN After(i)
                 /\ After(i)[target].content = hist[i].pre_files[hist[i].src].content

C1_Witness ==
    /\ pb.base # NoPath
    /\ Len(pb.copier) = 4
    /\ item_name \in {<<>>, <<"x">>}
    /\ \E i \in DOMAIN hist :
          /\ hist[i].op = "copy_document"
          /\ hist[i].mode = "OUTGOING"
          /\ hist[i].ret = "True"

\* C2: the scanner's and the copier's path builder return the same path on
\* every input, blank and whitespace-only items included.
C2_BuildersAgree == pb.base # NoPath => pb.scanner = pb.copier

C2_Witness ==
    /\ pb.base # NoPath
    /\ item_name # <<>>
    /\ Blank(item_name)
    /\ Len(pb.scanner) = 4

\* C3: copy_review_record_incoming, when no regular file with the source's
\* file name exists under the internal phase path, returns failure and leaves
\* the internal tree as it was.
C3_MissIsNoOp ==
    \A i \in DOMAIN hist :
        (/\ hist[i].op = "copy_review_record_incoming"
         /\ NamedInternally(hist[i].pre_files, Name(hist[i].src)) = {}) =>
            /\ hist[i].ret = "False"
            /\ InternalTree(After(i)) = InternalTree(hist[i].pre_files)
            /\ DirsAfter(i) = hist[i].pre_dirs

\* C4: copy_review_record_incoming, when a regular file with exactly the
\* source's file name exists under the internal phase path, returns success,
\* replaces the content of a file of that name where it is, creates no path
\* and leaves every other file unchanged.
C4_HitIsOverwrittenInPlace ==
    \A i \in DOMAIN hist :
        (/\ hist[i].op = "copy_review_record_incoming"
         /\ hist[i].fault = "none"
         /\ hist[i].src \in DOMAIN hist[i].pre_files
         /\ InExternal(hist[i].src)
         /\ NamedInternally(hist[i].pre_files, Name(hist[i].src)) # {}) =>
            /\ hist[i].ret = "True"
            /\ hist[i].dest \in NamedInternally(hist[i].pre_files, Name(hist[i].src))
            /\ DOMAIN After(i) = DOMAIN hist[i].pre_files
            /\ DirsAfter(i) = hist[i].pre_dirs
            /\ \A q \in DOMAIN After(i) :
                  After(i)[q] = IF q = hist[i].dest
                                THEN hist[i].pre_files[hist[i].src]
                                ELSE hist[i].pre_files[q]

\* the second call repeats the first
Repeated ==
    /\ Len(hist) = 2
    /\ hist[2].op = hist[1].op
    /\ hist[2].src = hist[1].src
    /\ hist[2].mode = hist[1].mode

\* the second call copies incoming what the first wrote outgoing
RoundTrip ==
    /\ Len(hist) = 2
    /\ Outgoing(hist[1])
    /\ hist[1].ret = "True"
    /\ hist[2].mode = "INCOMING"
    /\ hist[2].src = hist[1].dest

\* C5: a file staged in the internal phase tree, copied outgoing and then the
\* resulting external file copied incoming with the same coordinates, still
\* has its original bytes at its original internal path, and what the
\* incoming copy wrote are those bytes.
C5_RoundTrip ==
    (RoundTrip /\ IsProperPrefix(InternalPhaseDir(phase), hist[1].src)) =>
        LET original == hist[1].pre_files[hist[1].src].content
        IN  /\ hist[1].src \in DOMAIN files
            /\ files[hist[1].src].content = original
            /\ hist[2].ret = "True" =>
                  /\ InInternal(hist[2].dest)
                  /\ files[hist[2].dest].content = original

C5_Witness ==
    /\ RoundTrip
    /\ IsProperPrefix(InternalPhaseDir(phase), hist[1].src)
    /\ hist[1].op = "copy_review_record_outgoing"
    /\ hist[2].op = "copy_review_record_incoming"
    /\ hist[2].ret = "True"
    /\ hist[2].dest = hist[1].src

\* the tree a copy operation reads from
OnSourceSide(c) == IF c.mode = "OUTGOING" THEN InInternal(c.src) ELSE InExternal(c.src)

\* C6 as stated: each of the four copy operations, run twice with the same
\* source and coordinates, returns success both times and leaves the
\* destination content of the first run.
C6_TwiceSucceeds ==
    (/\ Repeated
     /\ hist[1].fault = "none"
     /\ hist[1].src \in DOMAIN hist[1].pre_files
     /\ OnSourceSide(hist[1])
     /\ Name(hist[1].src) = PlainName) =>
        /\ hist[1].ret = "True"
        /\ hist[2].ret = "True"
        /\ files = hist[2].pre_files

\* C6 amended: when the first run returns success, so does the second, on
\* the same destination, and the second changes nothing; an incoming review
\* record with nothing staged for it fails both times and changes nothing.
C6_Idempotent ==
    Repeated =>
        /\ hist[1].ret = "True" =>
              /\ hist[2].ret = "True"
              /\ hist[2].dest = hist[1].dest
              /\ files = hist[2].pre_files
              /\ dirs = hist[2].pre_dirs
        /\ (hist[1].ret = "False" /\ hist[1].fault = "none") =>
              /\ hist[2].ret = "False"
              /\ files = hist[1].pre_files

C6_Witness ==
    /\ Repeated
    /\ hist[1].ret = "True"
    /\ hist[2].ret = "True"
    /\ hist[1].dest \in DOMAIN hist[1].pre_files
    /\ hist[1].pre_files[hist[1].dest].content
          # hist[1].pre_files[hist[1].src].content

\* C7: no copy operation raises: a fault in directory creation, lookup or
\* copy makes it return False, and it returns True only when the copy is
\* complete.
C7_NeverRaises ==
    \A i \in DOMAIN hist :
        /\ hist[i].ret \in {"True", "False"}
        /\ hist[i].fault # "none" => hist[i].ret = "False"
        /\ hist[i].ret = "True" =>
              /\ hist[i].dest \in DOMAIN After(i)
              /\ After(i)[hist[i].dest] = hist[i].pre_files[hist[i].src]

C7_Witness ==
    /\ hist # <<>>
    /\ hist[1].fault = "write_failed"
    /\ hist[1].ret = "False"

\* C8 as stated: a copy operation that reports failure has left every file
\* absent or with the content it had before the call.
C8_NoPartialFile ==
    \A i \in DOMAIN hist :
        hist[i].ret = "False" =>
            \A q \in DOMAIN After(i) :
                /\ q \in DOMAIN hist[i].pre_files
                /\ After(i)[q].content = hist[i].pre_files[q].content

\* C8 amended: a copy operation that reports failure has changed no file but
\* its destination and removed nothing; the destination is untouched when
\* the failure comes before the write, partially written when it comes
\* during the write, and holds the new content when it comes after.
C8_FailureTouchesDestinationOnly ==
    \A i \in DOMAIN hist :
        hist[i].ret = "False" =>
            /\ DOMAIN hist[i].pre_files \subseteq DOMAIN After(i)
            /\ hist[i].pre_dirs \subseteq DirsAfter(i)
            /\ \A q \in DOMAIN After(i) \ {hist[i].dest} :
                  q \in DOMAIN hist[i].pre_files /\ After(i)[q] = hist[i].pre_files[q]
            /\ hist[i].fault \notin {"write_failed", "copystat_denied"} =>
                  /\ hist[i].dest = NoPath
                  /\ After(i) = hist[i].pre_files
            /\ hist[i].fault = "write_failed" =>
                  After(i)[hist[i].dest].content = PARTIAL
            /\ hist[i].fault = "copystat_denied" =>
                  After(i)[hist[i].dest].content
                     = hist[i].pre_files[hist[i].src].content

C8_Witness ==
    /\ hist # <<>>
    /\ hist[1].ret = "False"
    /\ hist[1].fault = "write_failed"
    /\ hist[1].dest \in DOMAIN hist[1].pre_files
    /\ files[hist[1].dest].content = PARTIAL

\* the files of the three lists, in the order execute_copy takes them
AllOf(b) == b.documents \o b.review_records \o b.extra_files

CountOf(b, outcomes) ==
    Cardinality({i \in DOMAIN b.attempted : b.attempted[i].outcome \in outcomes})

\* C9: execute_copy attempts every file of the three lists whatever failed
\* before, never aborts, counts a failed copy and a file of unknown phase as
\* one failure each, and returns counts that add up to the number of files.
C9_BatchCountsEveryFile ==
    batch.pc # "idle" =>
        /\ batch.pc # "raised"
        /\ batch.success_count = CountOf(batch, {"copied"})
        /\ batch.failure_count = CountOf(batch, {"failed"})
        /\ batch.success_count + batch.failure_count = Len(batch.attempted)
        /\ \A i \in DOMAIN batch.attempted : batch.attempted[i].file = AllOf(batch)[i]
        /\ batch.pc = "done" =>
              /\ Len(batch.attempted) = Len(AllOf(batch))
              /\ batch.success_count + batch.failure_count = Len(AllOf(batch))

C9_Witness ==
    /\ batch.pc = "done"
    /\ Len(batch.attempted) = 2
    /\ batch.attempted[1].outcome = "failed"
    /\ batch.attempted[1].file = BatchStray
    /\ batch.attempted[2].outcome = "copied"
    /\ batch.success_count = 1
    /\ batch.failure_count = 1

\* what the scan of a run looks at: the phase folder below the root the mode reads
ScannedFolder ==
    LET root == IF scan.mode = "OUTGOING" THEN <<"internal">> ELSE <<"external">>
        above == IF Blank(item_name) THEN <<root, project_name, quarter>>
                 ELSE <<root, project_name, quarter, item_name>>
    IN  Append(above, PhaseFolder(scan.phase))

\* its name is the prefix, "_", any text, ".xlsx"
NamedAfter(name, prefix) ==
    /\ Len(name) >= Len(prefix) + 2
    /\ SubSeq(name, 1, Len(prefix)) = prefix
    /\ name[Len(prefix) + 1] = "_"
    /\ name[Len(name)] = ".xlsx"

RecentDocuments ==
    {q \in DOMAIN files :
        /\ Parent(q) = ScannedFolder
        /\ \E k \in DOMAIN document_patterns[scan.phase] :
              NamedAfter(Name(q), document_patterns[scan.phase][k])
        /\ files[q].mtime >= (now - (now % TicksPerDay)) - scan.days_ago * TicksPerDay}

\* C10: scan_documents returns exactly the regular files directly in the phase
\* folder of the mode's root whose name is a configured prefix of the phase,
\* "_", any text and ".xlsx", and whose modification time is at or after
\* today's midnight minus days_ago days: each of them, and no other file
C10_ScanDocuments ==
    scan.op = "scan_documents" =>
        {scan.result[i] : i \in DOMAIN scan.result} = RecentDocuments

\* a scan returned a document and left out an older one of the same folder,
\* one of the artifacts folder and a folder named like a document
C10_Witness ==
    /\ scan.op = "scan_documents"
    /\ scan.result # <<>>
    /\ \E q \in DOMAIN files :
          /\ Parent(q) = ScannedFolder
          /\ NamedAfter(Name(q), <<"K">>)
          /\ q \notin {scan.result[i] : i \in DOMAIN scan.result}
    /\ Join(ScannedFolder, FolderName) \in dirs

ScanResult == {scan.result[i] : i \in DOMAIN scan.result}

\* the folder a review scan of the run searches
ReviewRoot ==
    LET pd == <<(IF scan.mode = "OUTGOING" THEN <<"internal">> ELSE <<"external">>),
                project_name, quarter, item_name, PhaseFolder(scan.phase)>>
    IN  IF scan.mode = "OUTGOING"
        THEN pd \o << <<"seikabutsu">>, <<"gaibu_review">> >>
        ELSE pd \o << <<"seikabutsu">> >>

Recent(q) == files[q].mtime >= (now - (now % TicksPerDay)) - scan.days_ago * TicksPerDay

\* C11: scan_review_records returns every recent regular file below its search
\* root, at any depth, whose name starts with "RR" and ends with ".xlsx", and
\* nothing else; the search root is phase/artifacts/external review of the
\* internal tree when outgoing and phase/artifacts of the external tree when
\* incoming, so an outgoing scan returns no file outside the external review
\* folder
C11_ScanReviewRecords ==
    scan.op = "scan_review_records" =>
        ScanResult = {q \in DOMAIN files :
                        /\ Len(q) > Len(ReviewRoot)
                        /\ SubSeq(q, 1, Len(ReviewRoot)) = ReviewRoot
                        /\ Len(Name(q)) >= 2
                        /\ Name(q)[1] = "RR"
                        /\ Name(q)[Len(Name(q))] = ".xlsx"
                        /\ Recent(q)}

\* an outgoing scan returned a record of a date folder while the internal
\* review folder holds a recent record too
C11_Witness ==
    /\ scan.op = "scan_review_records"
    /\ scan.mode = "OUTGOING"
    /\ \E q \in ScanResult : Len(q) > Len(ReviewRoot) + 1
    /\ \E q \in DOMAIN files :
          /\ <<"naibu_review">> \in {q[i] : i \in DOMAIN q}
          /\ Name(q) = SeparatorName
          /\ Recent(q)

RequiredSections == {"Paths", "Documents", "ExtraFiles"}

MissingSections(ini) == RequiredSections \ DOMAIN ini.sections

\* the required keys a present section lacks
MissingKeys(ini) ==
    {i \in DOMAIN RequiredOptions :
        /\ RequiredOptions[i][1] \in DOMAIN ini.sections
        /\ RequiredOptions[i][2] \notin DOMAIN ini.sections[RequiredOptions[i][1]]}

\* C17: load_config returns a complete Config or fails: a missing file raises
\* FileNotFoundError; a file with a required section missing raises
\* NoSectionError, one with a required key missing raises NoOptionError (with
\* both missing, the one load_config reads first decides); a Config is returned
\* only when nothing is missing, and it then holds both base paths, the
\* patterns of all seven phases and the extra file list
C17_LoadConfig ==
    loaded.op = "load_config" =>
        LET ini == loaded.file
            sections == MissingSections(ini)
            keys == MissingKeys(ini)
        IN  /\ ~ini.exists => loaded.exc = "FileNotFoundError"
            /\ (ini.exists /\ sections # {} /\ keys = {}) => loaded.exc = "NoSectionError"
            /\ (ini.exists /\ keys # {} /\ sections = {}) => loaded.exc = "NoOptionError"
            /\ (ini.exists /\ keys # {} /\ sections # {}) =>
                  loaded.exc \in {"NoSectionError", "NoOptionError"}
            /\ loaded.exc # "none" => loaded.config = None
            /\ loaded.exc = "none" =>
                  /\ ini.exists /\ sections = {} /\ keys = {}
                  /\ loaded.config.base_path_internal = << <<"internal">> >>
                  /\ loaded.config.base_path_external = << <<"external">> >>
                  /\ DOMAIN loaded.config.document_patterns = PhaseCode
                  /\ loaded.config.document_patterns["030"] = << <<"K">> >>
                  /\ \A p \in PhaseCode \ {"030"} :
                        loaded.config.document_patterns[p] = <<>>
                  /\ loaded.config.extra_files = << <<"memo", ".xlsx">> >>

\* a file that lacks nothing but the key of the last phase was refused
C17_Witness ==
    /\ loaded.op = "load_config"
    /\ loaded.exc = "NoOptionError"
    /\ MissingSections(loaded.file) = {}
    /\ {RequiredOptions[i][2] : i \in MissingKeys(loaded.file)} = {"090"}

\* the phase path of the run below a root
PhasePathBelow(root) ==
    IF Blank(item_name) THEN <<root, project_name, quarter, PhaseFolder(phase)>>
    ELSE <<root, project_name, quarter, item_name, PhaseFolder(phase)>>

\* the call wrote the source's content to target, with every folder above it
WroteTo(i, target) ==
    /\ hist[i].dest = target
    /\ target \in DOMAIN After(i)
    /\ After(i)[target].content = hist[i].pre_files[hist[i].src].content
    /\ Prefixes(Parent(target)) \subseteq DirsAfter(i)
    /\ hist[i].src \in DOMAIN After(i)

Unhindered(i) == hist[i].fault = "none" /\ hist[i].src \in DOMAIN hist[i].pre_files

\* C13: copy_review_record_outgoing and copy_extra_file write to
\* <external root>/phase path/artifacts/<source file name> wherever the source
\* lies, creating the folders that are missing and overwriting a file that is
\* there; they succeed whenever the source exists and nothing gets in the way
C13_FlattenedDestination ==
    \A i \in DOMAIN hist :
        hist[i].op \in {"copy_review_record_outgoing", "copy_extra_file"} =>
            LET target == PhasePathBelow(<<"external">>)
                              \o << <<"seikabutsu">>, Name(hist[i].src) >>
            IN  /\ hist[i].ret = "True" => WroteTo(i, target)
                /\ (Unhindered(i) /\ hist[i].src # target) => hist[i].ret = "True"

\* a record of a date folder replaced another content in the artifacts folder
C13_Witness ==
    \E i \in DOMAIN hist :
        /\ hist[i].op = "copy_review_record_outgoing"
        /\ hist[i].ret = "True"
        /\ <<"20251219">> \in {hist[i].src[k] : k \in DOMAIN hist[i].src}
        /\ hist[i].dest \in DOMAIN hist[i].pre_files
        /\ hist[i].pre_files[hist[i].dest].content
               # hist[i].pre_files[hist[i].src].content

\* the root scan_documents reads in a mode
ScannedRoot(mode) == IF mode = "OUTGOING" THEN <<"internal">> ELSE <<"external">>

\* C14: copy_document writes the source's content to
\* <dest root>/phase path/<source file name>, the dest root being the external
\* root when outgoing and the internal root when incoming, never the root
\* scan_documents reads in that mode; missing folders are created with their
\* ancestors and a file that is there is overwritten
C14_CopyDocumentDestination ==
    \A i \in DOMAIN hist :
        hist[i].op = "copy_document" =>
            LET root == CHOOSE r \in {<<"internal">>, <<"external">>} :
                            r # ScannedRoot(hist[i].mode)
                target == Append(PhasePathBelow(root), Name(hist[i].src))
            IN  /\ root = IF hist[i].mode = "OUTGOING" THEN <<"external">>
                          ELSE <<"internal">>
                /\ hist[i].ret = "True" => WroteTo(i, target)
                /\ (Unhindered(i) /\ hist[i].src # target) => hist[i].ret = "True"

\* an incoming copy replaced a file of the internal phase folder
C14_Witness ==
    \E i \in DOMAIN hist :
        /\ hist[i].op = "copy_document"
        /\ hist[i].ret = "True"
        /\ hist[i].mode = "INCOMING"
        /\ hist[i].dest \in DOMAIN hist[i].pre_files
        /\ hist[i].pre_files[hist[i].dest].content
               # hist[i].pre_files[hist[i].src].content

\* the folder a scan searches
SearchDirectory ==
    IF scan.op = "scan_documents"
    THEN PhasePathBelow(ScannedRoot(scan.mode))
    ELSE IF scan.mode = "OUTGOING"
    THEN PhasePathBelow(<<"internal">>) \o << <<"seikabutsu">>, <<"gaibu_review">> >>
    ELSE PhasePathBelow(<<"external">>) \o << <<"seikabutsu">> >>

\* C15: a scan of documents, review records or extra files, in either
\* direction, whose search folder does not exist returns the empty list, and
\* so does scan_documents for a phase without configured prefixes
C15_MissingDirectoryIsEmpty ==
    scan.op # "none" =>
        /\ SearchDirectory \notin dirs => scan.result = <<>>
        /\ (scan.op = "scan_documents" /\ document_patterns[scan.phase] = <<>>) =>
              scan.result = <<>>

\* an outgoing review scan found no external review folder, though the
\* internal review folder beside it holds a recent record
C15_Witness ==
    /\ scan.op = "scan_review_records"
    /\ scan.mode = "OUTGOING"
    /\ SearchDirectory \notin dirs
    /\ scan.result = <<>>
    /\ \E q \in DOMAIN files :
          /\ <<"naibu_review">> \in {q[i] : i \in DOMAIN q}
          /\ Name(q) = SeparatorName
          /\ Recent(q)

TodayMidnight == now - (now % TicksPerDay)

\* C16 as stated: should_include_file is true exactly when the modification
\* time is at or after today's midnight minus days_ago days, a file modified
\* yesterday is excluded for days_ago = 0 and one modified today is included,
\* and a file included for some days_ago is included for every larger one.
C16_Recency ==
    scan.op = "should_include_file" =>
        LET mtime == files[scan.file_path].mtime
            d == scan.days_ago
        IN  /\ scan.result =
                  IF mtime >= TodayMidnight - d * TicksPerDay THEN "True" ELSE "False"
            /\ (d = 0 /\ mtime <= now) =>
                  (scan.result = "True" <=> mtime >= TodayMidnight)
            /\ scan.result = "True" =>
                  \A larger \in RecencyDays :
                      larger > d =>
                          should_include_file_call(files, scan.file_path, larger, now)
                              = "True"

\* C16 within the range of datetime: the same, for every days_ago whose
\* cutoff is no earlier than datetime.min
C16_RecencyInRange ==
    (scan.op = "should_include_file" /\ ~cutoff_overflows(scan.days_ago, now)) =>
        LET mtime == files[scan.file_path].mtime
            d == scan.days_ago
        IN  /\ scan.result =
                  IF mtime >= TodayMidnight - d * TicksPerDay THEN "True" ELSE "False"
            /\ (d = 0 /\ mtime <= now) =>
                  (scan.result = "True" <=> mtime >= TodayMidnight)
            /\ scan.result = "True" =>
                  \A larger \in RecencyDays :
                      (larger > d /\ ~cutoff_overflows(larger, now)) =>
                          should_include_file_call(files, scan.file_path, larger, now)
                              = "True"

----------------------------------------------------------------------------
(* Claims about a run of main *)

Asked(field) == field \in DOMAIN run

Incoming == Asked("mode") /\ run.mode = "INCOMING"

\* C12: extra files take part in outgoing transfers only. scan_extra_files
\* returns the empty list for every phase and period when the direction is
\* incoming, and for either direction when the configured list of names is
\* empty; in an incoming run scan_all_files leaves the extra_files category
\* empty, copy_extra_file is never called, and no file bearing a configured
\* name is written or changed.
C12_ExtraFilesOutgoingOnly ==
    /\ \A p \in PhaseCode, d \in 0..MaxDaysAgo :
          /\ scan_extra_files(files, dirs, extra_files, p, "INCOMING", d) = <<>>
          /\ \A mode \in OperationMode :
                scan_extra_files(files, dirs, <<>>, p, mode, d) = <<>>
    /\ Incoming =>
          /\ run.all_files.extra_files = <<>>
          /\ \A i \in DOMAIN hist : hist[i].op # "copy_extra_file"
          /\ \A q \in DOMAIN files :
                (\E i \in DOMAIN extra_files : Name(q) = extra_files[i]) =>
                    q \in DOMAIN run.files0 /\ files[q] = run.files0[q]

\* an incoming run that copied a document while a file bearing a configured
\* extra name lay in the external tree
C12_Witness ==
    /\ Incoming
    /\ run.pc = "exit"
    /\ extra_files # <<>>
    /\ \E q \in DOMAIN files : InExternal(q) /\ Name(q) = extra_files[1]
    /\ \E i \in DOMAIN hist : hist[i].ret = "True"

LoadFailed == ~loaded.file.exists \/ (loaded.op = "load_config" /\ loaded.exc # "none")

ConfigLoaded == loaded.op = "load_config" /\ loaded.exc = "none"

\* C18: a run whose configuration does not load (file, section or option
\* missing) ends with exit code 1 before any prompt, scan or copy, and every
\* run whose configuration loads ends with exit code 0, whether or not files
\* were found, selected or copied.
C18_ExitCode ==
    run.pc = "exit" =>
        /\ LoadFailed =>
              /\ run.exit_code = "1"
              /\ run.prompts = 0
              /\ run.scans = 0
              /\ hist = <<>>
              /\ files = run.files0 /\ dirs = run.dirs0
        /\ ConfigLoaded => run.exit_code = "0"

\* C18 for the periods within the range of datetime: the same, for the runs
\* whose scan did not raise
C18_ExitCodeInRange ==
    run.pc = "exit" =>
        /\ LoadFailed =>
              /\ run.exit_code = "1"
              /\ run.prompts = 0
              /\ run.scans = 0
              /\ hist = <<>>
              /\ files = run.files0 /\ dirs = run.dirs0
        /\ (ConfigLoaded /\ run.exc = "none") => run.exit_code = "0"
        /\ (ConfigLoaded /\ run.exc # "none") =>
              /\ run.exc = "OverflowError"
              /\ run.exit_code = "1"
              /\ cutoff_overflows(run.days_ago, now)

Gated ==
    /\ Asked("confirm") /\ run.confirm = <<"y">>
    /\ total_count(run.filtered_files) > 0
    /\ total_count(run.selected_files) > 0

\* C19: no copy operation is executed unless the scan found at least one file
\* after filtering, the user selected at least one file and the answer to the
\* confirmation prompt, stripped and lowered as main reads it, is "y"; a run
\* that ends on any other answer, on an empty selection or on an empty scan
\* result has called no copy function and leaves both root trees as they were.
C19_CopyIsGated ==
    /\ ~Gated =>
          /\ hist = <<>>
          /\ batch = NoBatch
          /\ files = run.files0 /\ dirs = run.dirs0
    /\ (run.pc = "exit" /\ ConfigLoaded /\ run.exc = "none") =>
          \/ total_count(run.filtered_files) = 0 /\ ~Asked("selected_files")
          \/ /\ Asked("selected_files") /\ total_count(run.selected_files) = 0
             /\ ~Asked("confirm")
          \/ Asked("confirm") /\ run.confirm # <<"y">>
          \/ Gated /\ batch.pc = "done" /\ Len(batch.attempted) = Len(hist)

\* a run in which files were found and selected, ended by an answer other
\* than "y" at the confirmation prompt
C19_Witness ==
    /\ run.pc = "exit"
    /\ Asked("confirm") /\ run.confirm # <<"y">>
    /\ total_count(run.selected_files) > 0
    /\ DOMAIN files # {}

Range(seq) == {seq[i] : i \in DOMAIN seq}

NotOK(q) == ~check_review_record(run.files0, q, "none").is_ok

OtherContent(c) == IF c = "c1" THEN "c2" ELSE "c1"

\* C20: a validation result never blocks a copy. Every review record the scan
\* finds is listed, whatever check_review_record says of it, and the result
\* shows only in the status text ([OK] or [NG], outgoing review records
\* only); the selection is made of the files at the chosen numbers, or of
\* every listed file for "all", whatever their status; and execute_copy
\* attempts every selected file, an unhindered copy of a review record
\* succeeds and writes the source's content, and the outcome of each copy is
\* what it would be had the workbook held the other content.
C20_ValidationNeverBlocks ==
    /\ Asked("listed") =>
          /\ run.file_type_filter # "documents" =>
                \A i \in DOMAIN run.phases :
                    Range(scan_review_records(run.files0, run.dirs0, run.phases[i],
                                              run.mode, run.days_ago))
                        \subseteq {run.listed[k].file_path : k \in DOMAIN run.listed}
          /\ \A k \in DOMAIN run.listed :
                run.listed[k].status =
                    IF run.mode = "OUTGOING" /\ run.listed[k].category = "review_records"
                    THEN IF NotOK(run.listed[k].file_path) THEN "[NG]" ELSE "[OK]"
                    ELSE ""
    /\ Asked("selected_files") =>
          LET chosen == IF lower(run.selection_input) = <<"a", "l", "l">>
                        THEN DOMAIN run.listed
                        ELSE parse_selection_input(run.selection_input, Len(run.listed))
          IN  \A k \in DOMAIN run.listed :
                  k \in chosen <=>
                      run.listed[k].file_path
                          \in Range(run.selected_files[run.listed[k].category])
    /\ (run.pc = "exit" /\ Gated) =>
          Len(batch.attempted) = total_count(run.selected_files)
    /\ \A i \in DOMAIN hist :
          hist[i].op = "copy_review_record_outgoing" =>
              LET src == hist[i].src
                  p == get_phase_from_path(src)
                  other == [hist[i].pre_files EXCEPT
                               ![src].content = OtherContent(@)]
                  out == copy_review_record_outgoing(other, hist[i].pre_dirs, src, p,
                                                     hist[i].fault)
              IN  /\ out.ret = hist[i].ret
                  /\ out.dest = hist[i].dest
                  /\ Unhindered(i) => hist[i].ret = "True" /\ WroteTo(i, hist[i].dest)

\* a review record whose check failed was listed with [NG], selected, and
\* copied to the external tree
C20_Witness ==
    /\ run.pc = "exit"
    /\ Gated
    /\ \E k \in DOMAIN run.listed : run.listed[k].status = "[NG]"
    /\ \E i \in DOMAIN hist :
          /\ hist[i].op = "copy_review_record_outgoing"
          /\ NotOK(hist[i].src)
          /\ hist[i].ret = "True"
          /\ hist[i].dest \in DOMAIN files
          /\ files[hist[i].dest].content = run.files0[hist[i].src].content

----------------------------------------------------------------------------
(* Claims about the checks of a spreadsheet *)

\* absent, or a string with nothing but white space in it
BlankCell(value) ==
    \/ value = None
    \/ value # Number /\ \A i \in DOMAIN value : value[i] \in Whitespace

Readable == is_file(files, scan.file_path) /\ "cells" \in DOMAIN files[scan.file_path]

\* C21: on a readable spreadsheet check_review_record returns is_ok true
\* exactly when it produced no message, and its messages are one for each
\* blank required cell in the order AE2, AE8, AE7, where AE2 and AE8 are always
\* required and AE7 exactly when the file name holds "(shagai)"; a cell is
\* blank when it has no value or a string that is empty once stripped.
C21_CheckReviewRecord ==
    (scan.op = "check_review_record" /\ scan.fault = "none" /\ Readable) =>
        LET ws == files[scan.file_path].cells
            required == IF external_in(Name(scan.file_path))
                        THEN <<"AE2", "AE8", "AE7">> ELSE <<"AE2", "AE8">>
            IsBlank(cell) == BlankCell(ws[cell])
        IN  /\ scan.result.exc = "none"
            /\ scan.result.errors = SelectSeq(required, IsBlank)
            /\ scan.result.is_ok <=> scan.result.errors = <<>>

\* a record of an outside review with AE2 and AE7 blank and AE8 filled: two
\* messages, AE2 first
C21_Witness ==
    /\ scan.op = "check_review_record" /\ scan.fault = "none" /\ Readable
    /\ external_in(Name(scan.file_path))
    /\ files[scan.file_path].cells.AE8 = Number
    /\ scan.result.errors = <<"AE2", "AE7">>
    /\ ~scan.result.is_ok

CheckOps == {"check_review_record", "check_review_checklist"}

\* C22: neither check raises; when the file is not found, when it may not be
\* opened, or when it cannot be parsed as a spreadsheet, the check returns a
\* result that is not OK and carries exactly one message.
C22_ChecksNeverRaise ==
    scan.op \in CheckOps =>
        /\ scan.result.exc = "none"
        /\ (scan.fault = "open_denied" \/ ~Readable) =>
              /\ ~scan.result.is_ok
              /\ Len(scan.result.errors) = 1
              /\ scan.result.errors[1] =
                    IF scan.fault = "open_denied" THEN "access_error"
                    ELSE IF ~is_file(files, scan.file_path) THEN "not_found"
                    ELSE "read_error"

\* the checklist check met a spreadsheet it may not open, though every cell
\* of it is filled
C22_Witness ==
    /\ scan.op = "check_review_checklist"
    /\ scan.fault = "open_denied"
    /\ Readable
    /\ \A cell \in {"E4", "E5", "E6", "N6", "M15"} :
          ~BlankCell(files[scan.file_path].cells[cell])
    /\ scan.result.errors = <<"access_error">>

----------------------------------------------------------------------------
(* Claims about the functions of a run *)

\* the items of the input: the stretches between its commas
Items(input) ==
    LET n == Len(input)
        Item(a, b) ==
            /\ b >= a - 1
            /\ \A i \in a..b : input[i] # ","
            /\ a = 1 \/ input[a - 1] = ","
            /\ b = n \/ input[b + 1] = ","
    IN  {SubSeq(input, ab[1], ab[2]) :
            ab \in {cd \in (1..(n + 1)) \X (0..n) : Item(cd[1], cd[2])}}

\* a numeral, spaces around it ignored: digits, with a "+" before them or not
Numeral(t) ==
    LET u == strip(t)
        d == IF u # <<>> /\ Head(u) = "+" THEN Tail(u) ELSE u
    IN  d # <<>> /\ \A i \in DOMAIN d : d[i] \in Digits

ValueOfNumeral(t) ==
    LET u == strip(t)
        d == IF u # <<>> /\ Head(u) = "+" THEN Tail(u) ELSE u
    IN  digits_value(d)

\* the item names i: as a single number, or inside an inclusive range a-b
Names(item, i) ==
    LET t == strip(item)
        dashes == {k \in DOMAIN t : t[k] = "-"}
    IN  \/ dashes = {} /\ Numeral(t) /\ ValueOfNumeral(t) = i
        \/ /\ Cardinality(dashes) = 1
           /\ LET k == CHOOSE k \in dashes : TRUE
                  a == SubSeq(t, 1, k - 1)
                  b == SubSeq(t, k + 1, Len(t))
              IN  /\ Numeral(a) /\ Numeral(b)
                  /\ ValueOfNumeral(a) <= i /\ i <= ValueOfNumeral(b)

\* C23: parse_selection_input(input, max_index) returns exactly the integers
\* i of 1..max_index that some comma-separated item of the input names, as a
\* single number or inside an inclusive range a-b, spaces around the numbers
\* ignored; an item that is neither is skipped, no error is raised, and no
\* index outside 1..max_index is returned.
C23_ParseSelectionInput ==
    run.op = "parse_selection_input" =>
        /\ run.exc = "none"
        /\ run.result \subseteq 1..run.max_index
        /\ run.result = {i \in 1..run.max_index :
                            \E item \in Items(run.user_input) : Names(item, i)}

\* an item that is no number is skipped and the number after it, written
\* after a space, is returned
C23_Witness ==
    /\ run.op = "parse_selection_input"
    /\ run.user_input = <<"x", ",", " ", "2">>
    /\ run.max_index = 3
    /\ run.result = {2}

FileCategories == {"documents", "review_records", "extra_files"}

\* C24: apply_file_type_filter returns its input unchanged for "all"; for
\* "documents" it keeps the documents and the extra files and empties the
\* review records; for "reviews" it keeps the review records and empties the
\* other two; and whatever the filter, no category of the result holds a file
\* that was not in the same category of the input.
C24_ApplyFileTypeFilter ==
    run.op = "apply_file_type_filter" =>
        LET in == run.all_files
            out == run.result
            f == run.file_type_filter
        IN  /\ f = "all" => out = in
            /\ f = "documents" =>
                  /\ out.documents = in.documents
                  /\ out.extra_files = in.extra_files
                  /\ out.review_records = <<>>
            /\ f = "reviews" =>
                  /\ out.review_records = in.review_records
                  /\ out.documents = <<>>
                  /\ out.extra_files = <<>>
            /\ DOMAIN out = FileCategories
            /\ \A c \in FileCategories :
                  \A i \in DOMAIN out[c] : \E j \in DOMAIN in[c] : out[c][i] = in[c][j]

\* the "documents" filter applied to a result with files in all three
\* categories
C24_Witness ==
    /\ run.op = "apply_file_type_filter"
    /\ run.file_type_filter = "documents"
    /\ \A c \in FileCategories : run.all_files[c] # <<>>
    /\ run.result.extra_files = run.all_files.extra_files
    /\ run.result.review_records = <<>>

\* C25: create_indexed_file_list numbers the files 1..n, n being the total
\* number of files, with no gap and no repeat, lists all documents, then all
\* review records, then all extra files, each category in its input order
\* and labelled with its own category; an input without files gives the empty
\* list.
C25_CreateIndexedFileList ==
    run.op = "create_indexed_file_list" =>
        LET in == run.all_files
            out == run.result
            nd == Len(in.documents)
            nr == Len(in.review_records)
            ne == Len(in.extra_files)
        IN  /\ Len(out) = nd + nr + ne
            /\ \A k \in DOMAIN out : out[k].index = k
            /\ \A k \in 1..nd :
                  out[k].category = "documents" /\ out[k].file_path = in.documents[k]
            /\ \A k \in 1..nr :
                  /\ out[nd + k].category = "review_records"
                  /\ out[nd + k].file_path = in.review_records[k]
            /\ \A k \in 1..ne :
                  /\ out[nd + nr + k].category = "extra_files"
                  /\ out[nd + nr + k].file_path = in.extra_files[k]
            /\ (nd + nr + ne = 0) => out = <<>>

\* a list over all three categories, the same file twice among the review
\* records
C25_Witness ==
    /\ run.op = "create_indexed_file_list"
    /\ run.all_files.documents # <<>>
    /\ Len(run.all_files.review_records) = 2
    /\ run.all_files.review_records[1] = run.all_files.review_records[2]
    /\ run.all_files.extra_files # <<>>
    /\ run.result[Len(run.result)].category = "extra_files"
    /\ run.result[Len(run.result)].index = Len(run.result)

----------------------------------------------------------------------------
(* Claims about a scan followed by execute_copy *)

FlowScanned == run.pc \in {"scanned", "copy", "rescanned"}

FlowCopied == run.pc \in {"copy", "rescanned"} /\ batch.pc = "done"

\* the phase folder a document scan of the run reads
FlowFolder ==
    IF run.mode = "OUTGOING" THEN InternalPhaseDir(phase) ELSE ExternalPhaseDir(phase)

FlowPrefixes == document_patterns[phase]

\* the files the k-th prefix of the phase stands for, at the time of the scan
MatchesOf(k) ==
    {q \in DOMAIN run.files0 :
        /\ Parent(q) = FlowFolder
        /\ NamedAfter(Name(q), FlowPrefixes[k])
        /\ run.files0[q].mtime >= (now - (now % TicksPerDay)) - run.days_ago * TicksPerDay}

\* the number of listed prefixes that match the file
TimesMatched(q) == Cardinality({k \in DOMAIN FlowPrefixes : q \in MatchesOf(k)})

RECURSIVE GroupStart(_)
GroupStart(k) == IF k = 1 THEN 0 ELSE GroupStart(k - 1) + Cardinality(MatchesOf(k - 1))

Occurrences(seq, q) == Cardinality({i \in DOMAIN seq : seq[i] = q})

\* C26: scan_documents does not deduplicate. A file that k of the prefixes
\* listed for the phase match (prefixes that overlap, or one listed twice) is
\* k times in the result, the result is the matches of the first prefix, then
\* those of the second, and so on, and execute_copy calls copy_document for it
\* k times and counts each call as a success or a failure.
C26_NoDeduplication ==
    FlowScanned =>
        LET docs == run.all_files.documents
        IN  /\ \A q \in DOMAIN run.files0 \cup {docs[i] : i \in DOMAIN docs} :
                  Occurrences(docs, q) = TimesMatched(q)
            /\ \A k \in DOMAIN FlowPrefixes :
                  {docs[i] : i \in (GroupStart(k) + 1)..GroupStart(k + 1)} = MatchesOf(k)
            /\ FlowCopied =>
                  /\ \A q \in DOMAIN run.files0 :
                        Cardinality({i \in DOMAIN hist :
                                        hist[i].op = "copy_document" /\ hist[i].src = q})
                            = TimesMatched(q)
                  /\ batch.success_count + batch.failure_count
                        = total_count(run.all_files)
                  /\ Len(hist) = total_count(run.all_files)

\* "K_A_1.xlsx" was found under the prefix K_A and again under K, before
\* "K_B.xlsx", and was copied twice with success
C26_Witness ==
    /\ FlowCopied
    /\ run.mode = "OUTGOING"
    /\ FlowPrefixes = << <<"K", "_", "A">>, <<"K">> >>
    /\ Len(run.all_files.documents) = 3
    /\ Name(run.all_files.documents[1]) = OverlapName
    /\ {Name(run.all_files.documents[i]) : i \in 2..3} = {OverlapName, OtherName}
    /\ Cardinality({i \in DOMAIN hist : /\ hist[i].op = "copy_document"
                                        /\ Name(hist[i].src) = OverlapName
                                        /\ hist[i].ret = "True"}) = 2
    /\ batch.success_count = 3

\* the phase folder of the side a copy of the run writes to
FlowDestination ==
    IF run.mode = "OUTGOING" THEN ExternalPhaseDir(phase) ELSE InternalPhaseDir(phase)

\* a root, project, quarter or item that is spelled like a phase folder
CoordinateNamedLikePhase ==
    \E seg \in {base_path_internal[i] : i \in DOMAIN base_path_internal}
                   \cup {base_path_external[i] : i \in DOMAIN base_path_external}
                   \cup {project_name, quarter, item_name} :
        \E p \in PhaseCode : seg = PhaseFolder(p)

\* C27: every file a scan of phase P returns is copied by execute_copy as a
\* file of phase P: the phase inferred from its path is P, and a copy that
\* succeeds writes below the destination's folder of phase P, whatever the
\* root, project, quarter and item are.
C27_InferredPhase ==
    (run.pc \in {"copy", "rescanned"}) =>
        /\ \A c \in FileCategories :
              \A i \in DOMAIN run.all_files[c] :
                  get_phase_from_path(run.all_files[c][i]) = phase
        /\ \A i \in DOMAIN hist :
              hist[i].ret = "True" => IsPrefix(FlowDestination, hist[i].dest)

\* C27 for coordinates none of which is spelled like a phase folder
C27_InferredPhasePlain ==
    (run.pc \in {"copy", "rescanned"} /\ ~CoordinateNamedLikePhase) =>
        /\ \A c \in FileCategories :
              \A i \in DOMAIN run.all_files[c] :
                  get_phase_from_path(run.all_files[c][i]) = phase
        /\ \A i \in DOMAIN hist :
              hist[i].ret = "True" => IsPrefix(FlowDestination, hist[i].dest)

DirsBelow(root, ds) == {d \in ds : IsPrefix(root, d)}

FilesBelow(root, fs) == [q \in {r \in DOMAIN fs : IsPrefix(root, r)} |-> fs[q]]

\* the root of the side a call of the given direction reads
SourceRoot(mode) == IF mode = "OUTGOING" THEN base_path_internal ELSE base_path_external

\* C28: a copy never changes its source side. The two roots being distinct,
\* each outgoing call of copy_document, copy_review_record_outgoing and
\* copy_extra_file leaves every file and folder of the internal tree as it
\* was, each incoming call of copy_document and copy_review_record_incoming
\* leaves the external tree as it was, and a scan changes nothing in either
\* tree.
C28_SourceSideUnchanged ==
    base_path_internal # base_path_external =>
        /\ \A i \in DOMAIN hist :
              LET root == SourceRoot(hist[i].mode)
              IN  /\ FilesBelow(root, After(i)) = FilesBelow(root, hist[i].pre_files)
                  /\ DirsBelow(root, DirsAfter(i)) = DirsBelow(root, hist[i].pre_dirs)
        /\ run.pc = "scanned" => files = run.files0 /\ dirs = run.dirs0
        /\ run.pc = "rescanned" => files = run.files1 /\ dirs = run.dirs1

\* neither root is the other or a folder below it
RootsApart ==
    /\ ~IsPrefix(base_path_internal, base_path_external)
    /\ ~IsPrefix(base_path_external, base_path_internal)

\* C28 for roots that lie apart: the same, when neither root is the other or a
\* folder below the other
C28_SourceSideUnchangedApart ==
    RootsApart =>
        /\ \A i \in DOMAIN hist :
              LET root == SourceRoot(hist[i].mode)
              IN  /\ FilesBelow(root, After(i)) = FilesBelow(root, hist[i].pre_files)
                  /\ DirsBelow(root, DirsAfter(i)) = DirsBelow(root, hist[i].pre_dirs)
        /\ run.pc = "scanned" => files = run.files0 /\ dirs = run.dirs0
        /\ run.pc = "rescanned" => files = run.files1 /\ dirs = run.dirs1

\* an outgoing and an incoming run: each copied with success, wrote on the
\* other side, and was followed by a scan
C28_Witness ==
    /\ RootsApart
    /\ run.pc = "rescanned"
    /\ files # run.files0
    /\ \E i \in DOMAIN hist :
          /\ hist[i].ret = "True"
          /\ hist[i].op \in {"copy_review_record_outgoing", "copy_review_record_incoming"}
          /\ ~IsPrefix(SourceRoot(hist[i].mode), hist[i].dest)
    /\ total_count(run.rescan) > 0

\* the category execute_copy takes a call's file from
CategoryOf(op) ==
    IF op = "copy_document" THEN "documents"
    ELSE IF op = "copy_extra_file" THEN "extra_files" ELSE "review_records"

\* the successful outgoing copies of a document or a review record the
\* outgoing scan of the run found
ComposedCalls ==
    {i \in DOMAIN hist :
        /\ hist[i].mode = "OUTGOING"
        /\ hist[i].ret = "True"
        /\ hist[i].op \in {"copy_document", "copy_review_record_outgoing"}
        /\ hist[i].src \in Range(run.all_files[CategoryOf(hist[i].op)])}

\* C29: scan and copy compose. After a document or a review record found by
\* an outgoing scan is copied outgoing with success, an incoming scan of the
\* same category with the same root, project, quarter, item, phase and
\* days_ago returns the copied file at the external place it was written to,
\* under the name and with the modification time of its source.
C29_ScanAndCopyCompose ==
    (run.pc = "rescanned" /\ run.mode = "OUTGOING") =>
        \A i \in ComposedCalls :
            /\ hist[i].dest \in Range(run.rescan[CategoryOf(hist[i].op)])
            /\ Name(hist[i].dest) = Name(hist[i].src)
            /\ IsPrefix(base_path_external, hist[i].dest)

\* C29 for coordinates none of which is spelled like a phase folder
C29_ScanAndCopyComposePlain ==
    (run.pc = "rescanned" /\ run.mode = "OUTGOING" /\ ~CoordinateNamedLikePhase) =>
        \A i \in ComposedCalls :
            /\ hist[i].dest \in Range(run.rescan[CategoryOf(hist[i].op)])
            /\ Name(hist[i].dest) = Name(hist[i].src)
            /\ IsPrefix(base_path_external, hist[i].dest)

\* an outgoing run that copied a document and a review record, both of which
\* the incoming scan then returned
C29_Witness ==
    /\ run.pc = "rescanned"
    /\ run.mode = "OUTGOING"
    /\ \E i, j \in ComposedCalls :
          /\ hist[i].op = "copy_document"
          /\ hist[j].op = "copy_review_record_outgoing"
          /\ hist[i].dest \in Range(run.rescan.documents)
          /\ hist[j].dest \in Range(run.rescan.review_records)
          /\ hist[i].dest \notin DOMAIN run.files0

\* the calls of the batch for two files of one list that differ in their
\* folder and not in their name, both unhindered, in the order of the list
FlattenedPairs ==
    {pair \in (DOMAIN hist) \X (DOMAIN hist) :
        LET i == pair[1]
            j == pair[2]
            list == run.all_files[CategoryOf(hist[i].op)]
        IN  /\ i < j
            /\ hist[i].op = hist[j].op
            /\ hist[i].op \in {"copy_review_record_outgoing", "copy_extra_file"}
            /\ hist[i].fault = "none" /\ hist[j].fault = "none"
            /\ Name(hist[i].src) = Name(hist[j].src)
            /\ Parent(hist[i].src) # Parent(hist[j].src)
            /\ \E a, b \in DOMAIN list :
                  a < b /\ list[a] = hist[i].src /\ list[b] = hist[j].src}

\* no call after the j-th wrote where the j-th did
LastWrite(j) == \A k \in DOMAIN hist : k > j => hist[k].dest # hist[j].dest

C30_WitnessExtra ==
    /\ FlowCopied
    /\ run.mode = "OUTGOING"
    /\ \E pair \in FlattenedPairs :
          /\ hist[pair[1]].op = "copy_extra_file"
          /\ LastWrite(pair[2])

====
